---- MODULE Spec2Model ----
(***************************************************************************)
(* Signalling relay (examples/signalling-server/signalling_server.cpp) and *)
(* the schema adapter of the engine-side signalling client (vtk-cube       *)
(* main.cpp).                                                              *)
(*                                                                         *)
(* Spec          the relay process: uWebSockets open / message / close     *)
(*               handlers driving one ClientManager.                       *)
(* RegistrySpec  the ClientManager class alone, its public methods called  *)
(*               in any order with any arguments.                          *)
(* AdapterSpec   the signalling client of vtk_cube: the on_message lambda  *)
(*               (nested to flat) and the signal callback (flat to nested) *)
(*               applied to messages of the relay and of the engine.       *)
(***************************************************************************)
EXTENDS Integers, Sequences, FiniteSets, TLC

(***************************************************************************)
(* Bounds of the model.                                                    *)
(***************************************************************************)
MaxConns == 3
MaxMembers == 3

(***************************************************************************)
(* Program constants.                                                      *)
(***************************************************************************)
MaxMessageSize == 65536

Handles == 1..MaxConns

(***************************************************************************)
(* A text payload (std::string_view): `text` followed by `fill` blanks, so *)
(* that a payload of 65536 bytes is a value the checker can hold.          *)
(***************************************************************************)
Payload(t, n) == [text |-> t, fill |-> n]

length(msg) == Len(msg.text) + msg.fill

empty(msg) == length(msg) = 0

RelayPayloads ==
    { Payload("", 0),
      Payload("x", 0),
      Payload("{}", MaxMessageSize - 2),
      Payload("x", MaxMessageSize) }

Range(s) == { s[i] : i \in 1..Len(s) }

(***************************************************************************)
(* Logger: one line is a level, a fixed text and the number printed in it. *)
(***************************************************************************)
LogLine(level, text, n) == [level |-> level, text |-> text, n |-> n]

VARIABLES
    verbose,        \* main: std::atomic<bool> verbose
    clients_,       \* ClientManager::clients_
    conn,           \* per handle: "open" between its open and close events, else "closed"
    event,          \* the handler or method that ran last, with its arguments
    calls,          \* the ClientManager methods the last handler called
    sends,          \* the client->send calls of the last handler, in order
    sent_count,     \* broadcastMessage: local sent_count at its end
    failed_count,   \* broadcastMessage: local failed_count at its end
    ret,            \* what the last ClientManager method returned: <<>> is void
    raised,         \* the last handler or method let an exception escape
    log,            \* the Logger lines of the last handler
    origin,         \* signalling client: the message the current exchange began with
    path,           \* signalling client: the adapters applied to it, in order
    input,          \* signalling client: the text the last handler was given
    engine,         \* calls of the engine's C API made by the last handler
    tx,             \* texts the last handler sent to the relay (SignalingClient::send)
    errlog,         \* std::cerr lines of the last handler
    described,      \* engine: webrtc_session_set_remote_description has been called
    pc,             \* relay process: where main() is, or how the process ended
    argv,           \* relay process: its command line after argv[0]
    port,           \* main: int port
    serverStarted,  \* main: bool serverStarted
    listening,      \* relay process: the listen socket was bound and the program has not closed it
    exit_code,      \* relay process: what main() returned, -1 while it has not returned
    announced,      \* relay process: the address in its "listening on" line, "" if none
    cube_argv,      \* vtk_cube process: its command line after argv[0]
    mutex_,         \* ClientManager::mutex_: the thread that holds it, "" if none
    th,             \* per thread: the ClientManager method it is in and how far it is
    stalled,        \* the handles whose peer never reads what is sent to it
    pending,        \* the handles with a payload handed to send and not yet taken by the peer
    log_mutex_,     \* Logger::mutex_: the thread that holds it, "" if none
    watched,        \* the connection whose payloads are followed, 0 if none is
    said,           \* the accepted payloads the watched connection sent since it opened
    heard,          \* per handle: the payloads of the watched connection handed to it
    build,          \* vtk_cube: which main.cpp the process was built from
    running,        \* vtk_cube main: std::atomic<bool> running
    scene_dirty,    \* vtk_cube main: std::atomic<bool> scene_dirty
    dirty_mutex,    \* vtk_cube main: dirty_mutex is held by the streaming thread
    waiter,         \* vtk_cube main: the streaming thread is blocked in dirty_cv
    wpc,            \* vtk_cube: where the streaming thread (webrtc_thread) is
    mpc,            \* vtk_cube: where the main thread is
    frame_idx,      \* webrtc_thread: size_t frame_idx
    teardown,       \* vtk_cube main: the cleanup calls made so far, in order
    session         \* vtk_cube main: webrtc_ctx.session is not null

relayVars == <<verbose, clients_, conn, event, calls, sends,
               sent_count, failed_count, ret, raised, log>>

clientVars == <<origin, path, input, engine, tx, errlog, described>>

procVars == <<pc, argv, port, serverStarted, listening, exit_code, announced, cube_argv>>

lockVars == <<mutex_, th, stalled, pending, log_mutex_>>

orderVars == <<watched, said, heard>>

streamVars == <<build, running, scene_dirty, dirty_mutex, waiter, wpc, mpc, frame_idx,
                teardown, session>>

vars == <<relayVars, clientVars, procVars, lockVars, orderVars, streamVars>>

NoMsg == Payload("", 0)

Event(kind, ws, msg) == [kind |-> kind, ws |-> ws, msg |-> msg]

Call(op, ws) == [op |-> op, ws |-> ws]

Send(to, msg, ok) == [to |-> to, msg |-> msg, ok |-> ok]

(***************************************************************************)
(* ClientManager::addClient: push_back, then the info line.                *)
(***************************************************************************)
addClientTwice(cl, ws) ==
    [clients |-> Append(Append(cl, ws), ws),
     raised |-> FALSE,
     log |-> << LogLine("INFO", "Client connected. Total: ", Len(cl) + 2) >>]

addClient(cl, ws) ==
    [clients |-> Append(cl, ws),
     raised |-> FALSE,
     log |-> << LogLine("INFO", "Client connected. Total: ", Len(cl) + 1) >>]

(***************************************************************************)
(* std::find and vector::erase: the first occurrence is removed.           *)
(***************************************************************************)
find(cl, ws) ==
    IF \E i \in 1..Len(cl) : cl[i] = ws
    THEN CHOOSE i \in 1..Len(cl) : cl[i] = ws /\ \A j \in 1..(i - 1) : cl[j] # ws
    ELSE Len(cl) + 1

eraseLast(cl, i) == SubSeq(cl, 1, Len(cl) - 1)

erase(cl, i) == SubSeq(cl, 1, i - 1) \o SubSeq(cl, i + 1, Len(cl))

removeClientUnchecked(cl, ws) ==
    LET it == find(cl, ws) IN
    [clients |-> IF it # Len(cl) + 1 THEN erase(cl, it) ELSE erase(cl, Len(cl)),
     raised |-> FALSE,
     log |-> IF it # Len(cl) + 1
             THEN << LogLine("INFO", "Client disconnected. Total: ", Len(cl) - 1) >>
             ELSE << LogLine("WARN", "Attempted to remove non-existent client", 0) >>]

removeClientFirst(cl, ws) ==
    LET it == find(cl, ws) IN
    IF it # Len(cl) + 1
    THEN [clients |-> erase(cl, 1),
          raised |-> FALSE,
          log |-> << LogLine("INFO", "Client disconnected. Total: ", Len(cl) - 1) >>]
    ELSE [clients |-> cl,
          raised |-> FALSE,
          log |-> << LogLine("WARN", "Attempted to remove non-existent client", 0) >>]

removeClient(cl, ws) ==
    LET it == find(cl, ws) IN
    IF it # Len(cl) + 1
    THEN [clients |-> erase(cl, it),
          raised |-> FALSE,
          log |-> << LogLine("INFO", "Client disconnected. Total: ", Len(cl) - 1) >>]
    ELSE [clients |-> cl,
          raised |-> FALSE,
          log |-> << LogLine("WARN", "Attempted to remove non-existent client", 0) >>]

getClientCount(cl) == Len(cl)

(***************************************************************************)
(* ClientManager::broadcastMessage.  failSet is the set of handles whose   *)
(* send throws std::exception; every other send hands the message to the   *)
(* peer.  The loop runs over clients_ in order, from index i; the catch    *)
(* clause inside the loop leaves `raised` as it is.                        *)
(***************************************************************************)
RECURSIVE BroadcastLoopAbort(_, _, _, _, _, _, _)
BroadcastLoopAbort(cl, i, sender, message, vb, failSet, acc) ==
    IF i > Len(cl) THEN acc
    ELSE LET client == cl[i] IN
         IF client # sender
         THEN IF client \notin failSet
              THEN BroadcastLoopAbort(cl, i + 1, sender, message, vb, failSet,
                     [acc EXCEPT
                        !.sends = Append(@, Send(client, message, TRUE)),
                        !.sent_count = @ + 1,
                        !.log = IF vb
                                THEN Append(@, LogLine("INFO", "Message relayed to client", 0))
                                ELSE @])
              ELSE [acc EXCEPT
                        !.sends = Append(@, Send(client, message, FALSE)),
                        !.failed_count = @ + 1,
                        !.log = Append(@, LogLine("ERROR", "Failed to send message to client: ", 0))]
         ELSE BroadcastLoopAbort(cl, i + 1, sender, message, vb, failSet, acc)

RECURSIVE BroadcastLoopCountFirst(_, _, _, _, _, _, _)
BroadcastLoopCountFirst(cl, i, sender, message, vb, failSet, acc) ==
    IF i > Len(cl) THEN acc
    ELSE LET client == cl[i] IN
         IF client # sender
         THEN IF client \notin failSet
              THEN BroadcastLoopCountFirst(cl, i + 1, sender, message, vb, failSet,
                     [acc EXCEPT
                        !.sends = Append(@, Send(client, message, TRUE)),
                        !.sent_count = @ + 1,
                        !.log = IF vb
                                THEN Append(@, LogLine("INFO", "Message relayed to client", 0))
                                ELSE @])
              ELSE BroadcastLoopCountFirst(cl, i + 1, sender, message, vb, failSet,
                     [acc EXCEPT
                        !.sends = Append(@, Send(client, message, FALSE)),
                        !.sent_count = @ + 1,
                        !.failed_count = @ + 1,
                        !.log = Append(@, LogLine("ERROR", "Failed to send message to client: ", 0))])
         ELSE BroadcastLoopCountFirst(cl, i + 1, sender, message, vb, failSet, acc)

RECURSIVE BroadcastLoop(_, _, _, _, _, _, _)
BroadcastLoop(cl, i, sender, message, vb, failSet, acc) ==
    IF i > Len(cl) THEN acc
    ELSE LET client == cl[i] IN
         IF client # sender
         THEN IF client \notin failSet
              THEN BroadcastLoop(cl, i + 1, sender, message, vb, failSet,
                     [acc EXCEPT
                        !.sends = Append(@, Send(client, message, TRUE)),
                        !.sent_count = @ + 1,
                        !.log = IF vb
                                THEN Append(@, LogLine("INFO", "Message relayed to client", 0))
                                ELSE @])
              ELSE BroadcastLoop(cl, i + 1, sender, message, vb, failSet,
                     [acc EXCEPT
                        !.sends = Append(@, Send(client, message, FALSE)),
                        !.failed_count = @ + 1,
                        !.log = Append(@, LogLine("ERROR", "Failed to send message to client: ", 0))])
         ELSE BroadcastLoop(cl, i + 1, sender, message, vb, failSet, acc)

Finish(done, vb) ==
    LET warned == IF done.failed_count > 0
                  THEN Append(done.log,
                         LogLine("WARN", "Failed to send message to n clients", done.failed_count))
                  ELSE done.log
        told == IF vb /\ done.sent_count > 0
                THEN Append(warned,
                       LogLine("INFO", "Message sent to n clients", done.sent_count))
                ELSE warned
    IN [done EXCEPT !.log = told]

broadcastMessageToAll(cl, sender, message, vb, failSet) ==
    Finish(BroadcastLoop(cl, 1, 0, message, vb, failSet,
                    [sends |-> <<>>, sent_count |-> 0, failed_count |-> 0,
                     raised |-> FALSE, log |-> <<>>]), vb)

broadcastMessageTrimmed(cl, sender, message, vb, failSet) ==
    Finish(BroadcastLoop(cl, 1, sender, Payload(message.text, 0), vb, failSet,
                    [sends |-> <<>>, sent_count |-> 0, failed_count |-> 0,
                     raised |-> FALSE, log |-> <<>>]), vb)

broadcastMessage(cl, sender, message, vb, failSet) ==
    Finish(BroadcastLoop(cl, 1, sender, message, vb, failSet,
                    [sends |-> <<>>, sent_count |-> 0, failed_count |-> 0,
                     raised |-> FALSE, log |-> <<>>]), vb)

(***************************************************************************)
(* The peer behind handle c receives the messages of the sends that did    *)
(* not throw, in the order of the calls: inbox(c) is what the last handler *)
(* delivered to it.                                                        *)
(***************************************************************************)
RECURSIVE Received(_, _)
Received(ss, c) ==
    IF ss = <<>> THEN <<>>
    ELSE LET s == Head(ss) IN
         IF s.to = c /\ s.ok THEN <<s.msg>> \o Received(Tail(ss), c)
         ELSE Received(Tail(ss), c)

inbox(c) == Received(sends, c)

(***************************************************************************)
(* main: the .open handler.  Its try block catches what addClient rethrows.*)
(***************************************************************************)
OnOpenReplay(ws) ==
    /\ conn[ws] # "open"
    /\ LET r == addClient(clients_, ws) IN
       /\ clients_' = r.clients
       /\ log' = IF r.raised
                 THEN Append(r.log, LogLine("ERROR", "Failed to handle client connection: ", 0))
                 ELSE r.log
    /\ conn' = [conn EXCEPT ![ws] = "open"]
    /\ event' = Event("open", ws, NoMsg)
    /\ calls' = << Call("addClient", ws) >>
    /\ sends' = IF event.kind = "message" THEN << Send(ws, event.msg, TRUE) >> ELSE <<>>
    /\ sent_count' = 0
    /\ failed_count' = 0
    /\ ret' = <<>>
    /\ raised' = FALSE
    /\ UNCHANGED verbose

OnOpen(ws) ==
    /\ conn[ws] # "open"
    /\ LET r == addClient(clients_, ws) IN
       /\ clients_' = r.clients
       /\ log' = IF r.raised
                 THEN Append(r.log, LogLine("ERROR", "Failed to handle client connection: ", 0))
                 ELSE r.log
    /\ conn' = [conn EXCEPT ![ws] = "open"]
    /\ event' = Event("open", ws, NoMsg)
    /\ calls' = << Call("addClient", ws) >>
    /\ sends' = <<>>
    /\ sent_count' = 0
    /\ failed_count' = 0
    /\ ret' = <<>>
    /\ raised' = FALSE
    /\ UNCHANGED verbose

(***************************************************************************)
(* main: the .message handler.                                             *)
(***************************************************************************)
oversizedFrom(msg) == length(msg) >= MaxMessageSize

oversized(msg) == length(msg) > MaxMessageSize

ReceivedLine(msg) ==
    IF verbose THEN << LogLine("INFO", "Received message (n bytes)", length(msg)) >> ELSE <<>>

OnMessageStrict(ws, msg, failSet) ==
    /\ conn[ws] = "open"
    /\ event' = Event("message", ws, msg)
    /\ raised' = FALSE
    /\ ret' = <<>>
    /\ IF empty(msg)
       THEN /\ log' = ReceivedLine(msg) \o << LogLine("WARN", "Received empty message, ignoring", 0) >>
            /\ calls' = <<>>
            /\ sends' = <<>>
            /\ sent_count' = 0
            /\ failed_count' = 0
       ELSE IF oversized(msg)
       THEN /\ log' = ReceivedLine(msg) \o << LogLine("WARN", "Received oversized message (n bytes), ignoring", length(msg)) >>
            /\ calls' = <<>>
            /\ sends' = <<>>
            /\ sent_count' = 0
            /\ failed_count' = 0
       ELSE LET b == broadcastMessage(clients_, ws, msg, verbose, failSet) IN
            /\ log' = ReceivedLine(msg) \o
                      (IF b.raised
                       THEN Append(b.log, LogLine("ERROR", "Failed to handle message: ", 0))
                       ELSE b.log)
            /\ calls' = << Call("broadcastMessage", ws) >>
            /\ sends' = b.sends
            /\ sent_count' = b.sent_count
            /\ failed_count' = b.failed_count
    /\ conn' = IF empty(msg) \/ oversized(msg) THEN [conn EXCEPT ![ws] = "closed"] ELSE conn
    /\ clients_' = IF empty(msg) \/ oversized(msg) THEN removeClient(clients_, ws).clients ELSE clients_
    /\ UNCHANGED verbose

OnMessageNack(ws, msg, failSet) ==
    /\ conn[ws] = "open"
    /\ event' = Event("message", ws, msg)
    /\ raised' = FALSE
    /\ ret' = <<>>
    /\ IF empty(msg)
       THEN /\ log' = ReceivedLine(msg) \o << LogLine("WARN", "Received empty message, ignoring", 0) >>
            /\ calls' = <<>>
            /\ sends' = << Send(ws, Payload("error", 0), TRUE) >>
            /\ sent_count' = 0
            /\ failed_count' = 0
       ELSE IF oversized(msg)
       THEN /\ log' = ReceivedLine(msg) \o << LogLine("WARN", "Received oversized message (n bytes), ignoring", length(msg)) >>
            /\ calls' = <<>>
            /\ sends' = << Send(ws, Payload("error", 0), TRUE) >>
            /\ sent_count' = 0
            /\ failed_count' = 0
       ELSE LET b == broadcastMessage(clients_, ws, msg, verbose, failSet) IN
            /\ log' = ReceivedLine(msg) \o
                      (IF b.raised
                       THEN Append(b.log, LogLine("ERROR", "Failed to handle message: ", 0))
                       ELSE b.log)
            /\ calls' = << Call("broadcastMessage", ws) >>
            /\ sends' = b.sends
            /\ sent_count' = b.sent_count
            /\ failed_count' = b.failed_count
    /\ UNCHANGED <<verbose, clients_, conn>>

OnMessageStale(ws, msg, failSet) ==
    /\ conn[ws] = "open"
    /\ event' = Event("message", ws, msg)
    /\ raised' = FALSE
    /\ ret' = <<>>
    /\ IF empty(msg)
       THEN /\ log' = ReceivedLine(msg) \o << LogLine("WARN", "Received empty message, ignoring", 0) >>
            /\ calls' = <<>>
            /\ sends' = <<>>
            /\ sent_count' = 0
            /\ failed_count' = 0
       ELSE IF oversized(msg)
       THEN /\ log' = ReceivedLine(msg) \o << LogLine("WARN", "Received oversized message (n bytes), ignoring", length(msg)) >>
            /\ calls' = <<>>
            /\ sends' = <<>>
            /\ sent_count' = 0
            /\ failed_count' = 0
       ELSE LET b == broadcastMessage(clients_, ws,
                                      IF event.kind = "message" THEN event.msg ELSE msg,
                                      verbose, failSet) IN
            /\ log' = ReceivedLine(msg) \o
                      (IF b.raised
                       THEN Append(b.log, LogLine("ERROR", "Failed to handle message: ", 0))
                       ELSE b.log)
            /\ calls' = << Call("broadcastMessage", ws) >>
            /\ sends' = b.sends
            /\ sent_count' = b.sent_count
            /\ failed_count' = b.failed_count
    /\ UNCHANGED <<verbose, clients_, conn>>

OnMessage(ws, msg, failSet) ==
    /\ conn[ws] = "open"
    /\ event' = Event("message", ws, msg)
    /\ raised' = FALSE
    /\ ret' = <<>>
    /\ IF empty(msg)
       THEN /\ log' = ReceivedLine(msg) \o << LogLine("WARN", "Received empty message, ignoring", 0) >>
            /\ calls' = <<>>
            /\ sends' = <<>>
            /\ sent_count' = 0
            /\ failed_count' = 0
       ELSE IF oversized(msg)
       THEN /\ log' = ReceivedLine(msg) \o << LogLine("WARN", "Received oversized message (n bytes), ignoring", length(msg)) >>
            /\ calls' = <<>>
            /\ sends' = <<>>
            /\ sent_count' = 0
            /\ failed_count' = 0
       ELSE LET b == broadcastMessage(clients_, ws, msg, verbose, failSet) IN
            /\ log' = ReceivedLine(msg) \o
                      (IF b.raised
                       THEN Append(b.log, LogLine("ERROR", "Failed to handle message: ", 0))
                       ELSE b.log)
            /\ calls' = << Call("broadcastMessage", ws) >>
            /\ sends' = b.sends
            /\ sent_count' = b.sent_count
            /\ failed_count' = b.failed_count
    /\ UNCHANGED <<verbose, clients_, conn>>

(***************************************************************************)
(* main: the .close handler.                                               *)
(***************************************************************************)
\* The close codes the handler is given here: normal closure, going away,
\* abnormal closure.
CloseCodes == { 1000, 1001, 1006 }

ClosingLine(code) ==
    IF verbose THEN << LogLine("INFO", "Client disconnecting with code: ", code) >> ELSE <<>>

OnCloseKeep(ws, code) ==
    /\ conn[ws] = "open"
    /\ conn' = [conn EXCEPT ![ws] = "closed"]
    /\ event' = Event("close", ws, NoMsg)
    /\ log' = ClosingLine(code)
    /\ calls' = <<>>
    /\ sends' = <<>>
    /\ sent_count' = 0
    /\ failed_count' = 0
    /\ ret' = <<>>
    /\ raised' = FALSE
    /\ UNCHANGED <<verbose, clients_>>

OnClose(ws, code) ==
    /\ conn[ws] = "open"
    /\ LET r == removeClient(clients_, ws) IN
       /\ clients_' = r.clients
       /\ log' = ClosingLine(code) \o r.log
    /\ conn' = [conn EXCEPT ![ws] = "closed"]
    /\ event' = Event("close", ws, NoMsg)
    /\ calls' = << Call("removeClient", ws) >>
    /\ sends' = <<>>
    /\ sent_count' = 0
    /\ failed_count' = 0
    /\ ret' = <<>>
    /\ raised' = FALSE
    /\ UNCHANGED verbose

(***************************************************************************)
(* JSON (nlohmann::json).  One shape serves for a text on the wire and for *)
(* a parsed value: k is the kind, s a string, n a number, m the members of *)
(* an object as a sequence of <<key, value>> pairs.  In a text the members *)
(* are in the order written and a number is the literal "number"; in a     *)
(* parsed value they are in key order without repetition, as in the        *)
(* std::map behind a json object, and a number is "unsigned" or "integer". *)
(* "garbage" is a text that is not JSON, "nullptr" a null char pointer.    *)
(*                                                                         *)
(* An integer is held as sign and magnitude, the magnitude in two 16-bit   *)
(* halves, so that every value of a 32-bit conversion can be written.      *)
(***************************************************************************)
Half == 65536

Num(sign, hi, lo) == [sign |-> sign, hi |-> hi, lo |-> lo]

Zero == Num(1, 0, 0)

Small(i) == IF i < 0 THEN Num(-1, 0, -i) ELSE Num(1, 0, i)

J(k, s, n, m) == [k |-> k, s |-> s, n |-> n, m |-> m]

JString(s) == J("string", s, Zero, <<>>)

JNumber(n) == J("number", "", n, <<>>)

JUnsigned(n) == J("unsigned", "", n, <<>>)

JInteger(n) == J("integer", "", n, <<>>)

JBoolean(b) == J("boolean", "", IF b THEN Small(1) ELSE Zero, <<>>)

JNull == J("null", "", Zero, <<>>)

JObject(m) == J("object", "", Zero, m)

Garbage(s) == J("garbage", s, Zero, <<>>)

NullPtr == J("nullptr", "", Zero, <<>>)

(***************************************************************************)
(* The keys that occur, in the order std::map<std::string, json> keeps     *)
(* them (byte-wise comparison).                                            *)
(***************************************************************************)
KeyOrder ==
    << "candidate", "data", "foo", "sdp", "sdpMLineIndex", "sdpMid",
       "sdp_mid", "sdp_mline_index", "type", "usernameFragment" >>

Rank(key) == CHOOSE i \in 1..Len(KeyOrder) : KeyOrder[i] = key

(***************************************************************************)
(* json::contains, json::operator[] for reading, and operator[] followed   *)
(* by an assignment (a null value becomes an object).                      *)
(***************************************************************************)
contains(j, key) == j.k = "object" /\ \E i \in 1..Len(j.m) : j.m[i][1] = key

at(j, key) == j.m[CHOOSE i \in 1..Len(j.m) : j.m[i][1] = key][2]

set(j, key, val) ==
    LET Before(p) == Rank(p[1]) < Rank(key)
        After(p) == Rank(p[1]) > Rank(key)
    IN JObject(SelectSeq(j.m, Before) \o << <<key, val>> >> \o SelectSeq(j.m, After))

(***************************************************************************)
(* json::parse of a text that is JSON: a literal without sign is stored as *)
(* number_unsigned, a negative one as number_integer; the members of an    *)
(* object are inserted one by one, so a repeated key keeps its last value. *)
(***************************************************************************)
RECURSIVE parse(_)
RECURSIVE ParseMembers(_, _)
ParseMembers(ms, acc) ==
    IF ms = <<>> THEN acc
    ELSE ParseMembers(Tail(ms), set(acc, Head(ms)[1], parse(Head(ms)[2])))

parse(t) ==
    IF t.k = "number" THEN (IF t.n.sign < 0 THEN JInteger(t.n) ELSE JUnsigned(t.n))
    ELSE IF t.k = "object" THEN ParseMembers(t.m, JObject(<<>>))
    ELSE t

(***************************************************************************)
(* json::dump: numbers are printed as literals, members in key order.      *)
(***************************************************************************)
RECURSIVE dump(_)
RECURSIVE DumpMembers(_)
DumpMembers(ms) ==
    IF ms = <<>> THEN <<>>
    ELSE << << Head(ms)[1], dump(Head(ms)[2]) >> >> \o DumpMembers(Tail(ms))

dump(j) ==
    IF j.k \in {"unsigned", "integer"} THEN JNumber(j.n)
    ELSE IF j.k = "object" THEN JObject(DumpMembers(j.m))
    ELSE j

(***************************************************************************)
(* Conversions.  A result is [threw, s, n]: threw stands for the           *)
(* json::type_error the call raises.                                       *)
(***************************************************************************)
Got(s, n) == [threw |-> FALSE, s |-> s, n |-> n]

Thrown == [threw |-> TRUE, s |-> "", n |-> Zero]

(***************************************************************************)
(* static_cast<unsigned int> and static_cast<int> of a 64-bit integer: the *)
(* value modulo 2^32, read as unsigned or in two's complement.             *)
(***************************************************************************)
Negate32(hi, lo) ==
    [hi |-> (Half - (hi % Half) - (IF lo = 0 THEN 0 ELSE 1)) % Half,
     lo |-> (Half - lo) % Half]

ToUnsigned(n) ==
    IF n.sign > 0 THEN Num(1, n.hi % Half, n.lo)
    ELSE LET c == Negate32(n.hi, n.lo) IN Num(1, c.hi, c.lo)

ToInt(n) ==
    LET u == ToUnsigned(n) IN
    IF u.hi < Half \div 2 THEN u
    ELSE LET c == Negate32(u.hi, u.lo) IN
         Num(-1, c.hi, c.lo)

getString(j) == IF j.k = "string" THEN Got(j.s, Zero) ELSE Thrown

getUnsigned(j) ==
    IF j.k \in {"unsigned", "integer", "boolean"} THEN Got("", ToUnsigned(j.n)) ELSE Thrown

getInt(j) ==
    IF j.k \in {"unsigned", "integer", "boolean"} THEN Got("", ToInt(j.n)) ELSE Thrown

(***************************************************************************)
(* json::value(key, default) with a string default and with an int default.*)
(***************************************************************************)
valueString(j, key, default) ==
    IF j.k # "object" THEN Thrown
    ELSE IF contains(j, key) THEN getString(at(j, key))
    ELSE Got(default, Zero)

valueInt(j, key, default) ==
    IF j.k # "object" THEN Thrown
    ELSE IF contains(j, key) THEN getInt(at(j, key))
    ELSE Got("", default)

(***************************************************************************)
(* The engine's C API as the signalling client uses it.                    *)
(***************************************************************************)
EngineCall(fn, payload) == [fn |-> fn, payload |-> payload]

Handled(es, errs) == [engine |-> es, tx |-> <<>>, errlog |-> errs]

Sent(ts, errs) == [engine |-> <<>>, tx |-> ts, errlog |-> errs]

(***************************************************************************)
(* main: the on_message lambda given to SignalingClient (nested to flat).  *)
(***************************************************************************)
OnSdpAsOffer(j, type, msg) ==
    IF contains(j, "data") /\ contains(at(j, "data"), "sdp")
    THEN LET sdp == getString(at(at(j, "data"), "sdp")) IN
         IF sdp.threw
         THEN Handled(<<>>, << "[Signaling] Error processing message: " >>)
         ELSE LET typed == set(JNull, "type", JString("offer"))
                  sdp_payload == set(typed, "sdp", JString(sdp.s))
              IN Handled(<< EngineCall("webrtc_session_set_remote_description",
                                       dump(sdp_payload)) >>, <<>>)
    ELSE Handled(<<>>, << "[Signaling] Malformed Offer/Answer: missing data.sdp field: " >>)

OnSdp(j, type, msg) ==
    IF contains(j, "data") /\ contains(at(j, "data"), "sdp")
    THEN LET sdp == getString(at(at(j, "data"), "sdp")) IN
         IF sdp.threw
         THEN Handled(<<>>, << "[Signaling] Error processing message: " >>)
         ELSE LET typed == set(JNull, "type",
                               JString(IF type = "Offer" THEN "offer" ELSE "answer"))
                  sdp_payload == set(typed, "sdp", JString(sdp.s))
              IN Handled(<< EngineCall("webrtc_session_set_remote_description",
                                       dump(sdp_payload)) >>, <<>>)
    ELSE Handled(<<>>, << "[Signaling] Malformed Offer/Answer: missing data.sdp field: " >>)

OnIceCandidateSigned(j, msg) ==
    IF /\ contains(j, "data")
       /\ contains(at(j, "data"), "candidate")
       /\ contains(at(j, "data"), "sdp_mid")
       /\ contains(at(j, "data"), "sdp_mline_index")
    THEN LET data == at(j, "data")
             candidate == getString(at(data, "candidate"))
             sdpMid == getString(at(data, "sdp_mid"))
             sdpMLineIndex == getInt(at(data, "sdp_mline_index"))
         IN IF candidate.threw \/ sdpMid.threw \/ sdpMLineIndex.threw
            THEN Handled(<<>>, << "[Signaling] Error processing message: " >>)
            ELSE LET c == set(JNull, "candidate", JString(candidate.s))
                     cm == set(c, "sdpMid", JString(sdpMid.s))
                     ice_payload == set(cm, "sdpMLineIndex", JInteger(sdpMLineIndex.n))
                 IN Handled(<< EngineCall("webrtc_session_add_ice_candidate",
                                          dump(ice_payload)) >>, <<>>)
    ELSE Handled(<<>>, << "[Signaling] Malformed IceCandidate: missing fields: " >>)

OnIceCandidate(j, msg) ==
    IF /\ contains(j, "data")
       /\ contains(at(j, "data"), "candidate")
       /\ contains(at(j, "data"), "sdp_mid")
       /\ contains(at(j, "data"), "sdp_mline_index")
    THEN LET data == at(j, "data")
             candidate == getString(at(data, "candidate"))
             sdpMid == getString(at(data, "sdp_mid"))
             sdpMLineIndex == getUnsigned(at(data, "sdp_mline_index"))
         IN IF candidate.threw \/ sdpMid.threw \/ sdpMLineIndex.threw
            THEN Handled(<<>>, << "[Signaling] Error processing message: " >>)
            ELSE LET c == set(JNull, "candidate", JString(candidate.s))
                     cm == set(c, "sdpMid", JString(sdpMid.s))
                     ice_payload == set(cm, "sdpMLineIndex", JUnsigned(sdpMLineIndex.n))
                 IN Handled(<< EngineCall("webrtc_session_add_ice_candidate",
                                          dump(ice_payload)) >>, <<>>)
    ELSE Handled(<<>>, << "[Signaling] Malformed IceCandidate: missing fields: " >>)

on_message(msg) ==
    IF msg.k = "garbage"
    THEN Handled(<<>>, << "[Signaling] Failed to parse JSON message: " >>)
    ELSE LET j == parse(msg)
             type == valueString(j, "type", "")
         IN IF type.threw
            THEN Handled(<<>>, << "[Signaling] Error processing message: " >>)
            ELSE IF type.s = "Offer" \/ type.s = "Answer" THEN OnSdp(j, type.s, msg)
            ELSE IF type.s = "IceCandidate" THEN OnIceCandidate(j, msg)
            ELSE Handled(<<>>, <<>>)

(***************************************************************************)
(* main: the callback given to webrtc_session_set_signal_callback (flat to *)
(* nested).  user_data is the SignalingClient, never null.                 *)
(***************************************************************************)
NestSdpEmpty(j_flat, name, flat_msg_str) ==
    LET sdp == valueString(j_flat, "SDP", "") IN
    IF sdp.threw
    THEN Sent(<< flat_msg_str >>,
              << "[WebRTC App] Error processing message from C API for nesting: " >>)
    ELSE LET j_nested_data == set(JNull, "sdp", JString(sdp.s))
             typed == set(JNull, "type", JString(name))
             j_nested_outer == set(typed, "data", j_nested_data)
         IN Sent(<< dump(j_nested_outer) >>, <<>>)

NestSdp(j_flat, name, flat_msg_str) ==
    LET sdp == valueString(j_flat, "sdp", "") IN
    IF sdp.threw
    THEN Sent(<< flat_msg_str >>,
              << "[WebRTC App] Error processing message from C API for nesting: " >>)
    ELSE LET j_nested_data == set(JNull, "sdp", JString(sdp.s))
             typed == set(JNull, "type", JString(name))
             j_nested_outer == set(typed, "data", j_nested_data)
         IN Sent(<< dump(j_nested_outer) >>, <<>>)

NestCandidateKeep(j_flat, flat_msg_str) ==
    LET candidate == valueString(j_flat, "candidate", "")
        sdpMid == valueString(j_flat, "sdpMid", "")
        sdpMLineIndex == valueInt(j_flat, "sdpMLineIndex", Zero)
    IN IF candidate.threw \/ sdpMid.threw \/ sdpMLineIndex.threw
       THEN Sent(<< flat_msg_str >>,
                 << "[WebRTC App] Error processing message from C API for nesting: " >>)
       ELSE LET c == set(j_flat, "candidate", JString(candidate.s))
                cm == set(c, "sdp_mid", JString(sdpMid.s))
                j_nested_data == set(cm, "sdp_mline_index", JInteger(sdpMLineIndex.n))
                typed == set(JNull, "type", JString("IceCandidate"))
                j_nested_outer == set(typed, "data", j_nested_data)
            IN Sent(<< dump(j_nested_outer) >>, <<>>)

NestCandidate(j_flat, flat_msg_str) ==
    LET candidate == valueString(j_flat, "candidate", "")
        sdpMid == valueString(j_flat, "sdpMid", "")
        sdpMLineIndex == valueInt(j_flat, "sdpMLineIndex", Zero)
    IN IF candidate.threw \/ sdpMid.threw \/ sdpMLineIndex.threw
       THEN Sent(<< flat_msg_str >>,
                 << "[WebRTC App] Error processing message from C API for nesting: " >>)
       ELSE LET c == set(JNull, "candidate", JString(candidate.s))
                cm == set(c, "sdp_mid", JString(sdpMid.s))
                j_nested_data == set(cm, "sdp_mline_index", JInteger(sdpMLineIndex.n))
                typed == set(JNull, "type", JString("IceCandidate"))
                j_nested_outer == set(typed, "data", j_nested_data)
            IN Sent(<< dump(j_nested_outer) >>, <<>>)

signal_callbackDropping(flat_msg_cstr) ==
    IF flat_msg_cstr.k = "nullptr" THEN Sent(<<>>, <<>>)
    ELSE IF flat_msg_cstr.k = "garbage"
    THEN Sent(<< flat_msg_cstr >>, << "[WebRTC App] Failed to parse flat JSON from C API: " >>)
    ELSE LET j_flat == parse(flat_msg_cstr)
             type == valueString(j_flat, "type", "")
         IN IF type.threw
            THEN Sent(<< flat_msg_cstr >>,
                      << "[WebRTC App] Error processing message from C API for nesting: " >>)
            ELSE IF type.s = "answer" THEN NestSdp(j_flat, "Answer", flat_msg_cstr)
            ELSE IF type.s = "offer" THEN NestSdp(j_flat, "Offer", flat_msg_cstr)
            ELSE IF /\ contains(j_flat, "candidate")
                    /\ contains(j_flat, "sdpMid")
                    /\ contains(j_flat, "sdpMLineIndex")
                    /\ (type.s = "" \/ (type.s # "answer" /\ type.s # "offer"))
            THEN NestCandidate(j_flat, flat_msg_cstr)
            ELSE Sent(<<>>,
                      << "[WebRTC App] Unknown message type or structure from C API for nesting: " >>)

signal_callbackSilent(flat_msg_cstr) ==
    IF flat_msg_cstr.k = "nullptr" THEN Sent(<<>>, <<>>)
    ELSE IF flat_msg_cstr.k = "garbage"
    THEN Sent(<<>>, << "[WebRTC App] Failed to parse flat JSON from C API: " >>)
    ELSE LET j_flat == parse(flat_msg_cstr)
             type == valueString(j_flat, "type", "")
         IN IF type.threw
            THEN Sent(<< flat_msg_cstr >>,
                      << "[WebRTC App] Error processing message from C API for nesting: " >>)
            ELSE IF type.s = "answer" THEN NestSdp(j_flat, "Answer", flat_msg_cstr)
            ELSE IF type.s = "offer" THEN NestSdp(j_flat, "Offer", flat_msg_cstr)
            ELSE IF /\ contains(j_flat, "candidate")
                    /\ contains(j_flat, "sdpMid")
                    /\ contains(j_flat, "sdpMLineIndex")
                    /\ (type.s = "" \/ (type.s # "answer" /\ type.s # "offer"))
            THEN NestCandidate(j_flat, flat_msg_cstr)
            ELSE Sent(<< flat_msg_cstr >>,
                      << "[WebRTC App] Unknown message type or structure from C API for nesting: " >>)

signal_callback(flat_msg_cstr) ==
    IF flat_msg_cstr.k = "nullptr" THEN Sent(<<>>, <<>>)
    ELSE IF flat_msg_cstr.k = "garbage"
    THEN Sent(<< flat_msg_cstr >>, << "[WebRTC App] Failed to parse flat JSON from C API: " >>)
    ELSE LET j_flat == parse(flat_msg_cstr)
             type == valueString(j_flat, "type", "")
         IN IF type.threw
            THEN Sent(<< flat_msg_cstr >>,
                      << "[WebRTC App] Error processing message from C API for nesting: " >>)
            ELSE IF type.s = "answer" THEN NestSdp(j_flat, "Answer", flat_msg_cstr)
            ELSE IF type.s = "offer" THEN NestSdp(j_flat, "Offer", flat_msg_cstr)
            ELSE IF /\ contains(j_flat, "candidate")
                    /\ contains(j_flat, "sdpMid")
                    /\ contains(j_flat, "sdpMLineIndex")
                    /\ (type.s = "" \/ (type.s # "answer" /\ type.s # "offer"))
            THEN NestCandidate(j_flat, flat_msg_cstr)
            ELSE Sent(<< flat_msg_cstr >>,
                      << "[WebRTC App] Unknown message type or structure from C API for nesting: " >>)

(***************************************************************************)
(* The relay process and the vtk_cube process: their command lines.        *)
(* main() of the relay: the default port and the largest port it accepts.  *)
(***************************************************************************)
DefaultPort == 8080

MaxPort == 65535

SmokeTestPort == 9080

DefaultSignallingUrl == "ws://localhost:8888"

(***************************************************************************)
(* std::to_string of a non-negative int.                                   *)
(***************************************************************************)
Digit == << "0", "1", "2", "3", "4", "5", "6", "7", "8", "9" >>

RECURSIVE to_string(_)
to_string(n) ==
    IF n < 10 THEN Digit[n + 1] ELSE to_string(n \div 10) \o Digit[(n % 10) + 1]

(***************************************************************************)
(* The address of the relay's "listening on" line, and the line the smoke  *)
(* test looks for.                                                         *)
(***************************************************************************)
Address(p) == "ws://localhost:" \o to_string(p)

SmokeTestAddress == "ws://localhost:9080"

(***************************************************************************)
(* std::stoi(str), base 10: leading white space is skipped, then an        *)
(* optional sign and the longest run of digits are read and what follows   *)
(* is ignored.  It throws std::invalid_argument when there is no digit and *)
(* std::out_of_range when the value is not an int.                         *)
(***************************************************************************)
INT_MAX == 2147483647

INT_MIN == (-INT_MAX) - 1

Char(str, i) == SubSeq(str, i, i)

\* The white space of the C locale: space, \t, \n, \v (the character 0x0b,
\* written as itself), \f and \r.
isspace(c) == c \in { " ", "\t", "\n", "", "\f", "\r" }

isdigit(c) == \E d \in 1..10 : Digit[d] = c

DigitValue(c) == (CHOOSE d \in 1..10 : Digit[d] = c) - 1

RECURSIVE SkipSpace(_, _)
SkipSpace(str, i) ==
    IF i <= Len(str) /\ isspace(Char(str, i)) THEN SkipSpace(str, i + 1) ELSE i

\* The digits from position i on, accumulated as a non-positive number so
\* that INT_MIN is reached without overflow.
RECURSIVE Accumulate(_, _, _)
Accumulate(str, i, acc) ==
    IF i > Len(str) \/ ~isdigit(Char(str, i)) THEN acc
    ELSE LET d == DigitValue(Char(str, i)) IN
         IF acc.over \/ acc.n < -214748364 \/ (acc.n = -214748364 /\ d > 8)
         THEN Accumulate(str, i + 1, [acc EXCEPT !.any = TRUE, !.over = TRUE])
         ELSE Accumulate(str, i + 1, [acc EXCEPT !.any = TRUE, !.n = (@ * 10) - d])

stoi(str) ==
    LET i0 == SkipSpace(str, 1)
        signed == i0 <= Len(str) /\ Char(str, i0) \in { "-", "+" }
        negative == signed /\ Char(str, i0) = "-"
        r == Accumulate(str, IF signed THEN i0 + 1 ELSE i0,
                        [n |-> 0, any |-> FALSE, over |-> FALSE])
    IN  IF ~r.any \/ r.over \/ (~negative /\ r.n = INT_MIN)
        THEN [threw |-> TRUE, n |-> 0]
        ELSE [threw |-> FALSE, n |-> IF negative THEN r.n ELSE -r.n]

(***************************************************************************)
(* main() of the relay, the argument loop from argv[i] on: the flags it    *)
(* ends with, what it returned (-1: it went on to listen) and its lines.   *)
(***************************************************************************)
RECURSIVE ParseArgs(_, _, _)
ParseArgs(args, i, acc) ==
    IF i > Len(args) THEN acc
    ELSE IF args[i] = "--verbose"
    THEN ParseArgs(args, i + 1,
                   [acc EXCEPT !.verbose = TRUE,
                               !.log = Append(@, LogLine("INFO", "Verbose mode enabled", 0))])
    ELSE IF args[i] = "--port" /\ i + 1 <= Len(args)
    THEN LET v == stoi(args[i + 1]) IN
         IF v.threw
         THEN [acc EXCEPT !.exit = 1,
                          !.log = Append(@, LogLine("ERROR", "Error parsing argument '", 0))]
         ELSE IF v.n <= 0 \/ v.n > MaxPort
         THEN [acc EXCEPT !.port = v.n, !.exit = 1,
                          !.log = Append(@, LogLine("ERROR", "Error parsing argument '", 0))]
         ELSE ParseArgs(args, i + 2,
                        [acc EXCEPT !.port = v.n,
                                    !.log = Append(@, LogLine("INFO", "Using port: ", v.n))])
    ELSE IF args[i] = "--help"
    THEN [acc EXCEPT !.exit = 0]
    ELSE ParseArgs(args, i + 1,
                   [acc EXCEPT !.log = Append(@, LogLine("WARN", "Unknown argument: ", 0))])

(***************************************************************************)
(* main() of vtk_cube, the argument loop from argv[i] on, and the default  *)
(* output after it.                                                        *)
(***************************************************************************)
RECURSIVE CubeLoop(_, _, _)
CubeLoop(args, i, acc) ==
    IF i > Len(args) THEN acc
    ELSE LET a1 == IF args[i] = "--native" THEN [acc EXCEPT !.native_output = TRUE] ELSE acc
             a2 == IF args[i] = "--webrtc" THEN [a1 EXCEPT !.webrtc_output = TRUE] ELSE a1
             sized == args[i] = "--size" /\ i + 2 <= Len(args)
             w == stoi(args[i + 1])
             h == stoi(args[i + 2])
             i1 == IF sized THEN i + 2 ELSE i
             a3 == IF sized THEN [a2 EXCEPT !.width = w.n, !.height = h.n] ELSE a2
             url == args[i] = "--signalling" /\ i1 + 1 <= Len(args)
             i2 == IF url THEN i1 + 1 ELSE i1
             a4 == IF url THEN [a3 EXCEPT !.signalling_url = args[i2]] ELSE a3
             a5 == IF args[i] = "--verbose" THEN [a4 EXCEPT !.verbose = TRUE] ELSE a4
         IN  IF sized /\ w.threw THEN [a2 EXCEPT !.aborted = TRUE]
             ELSE IF sized /\ h.threw THEN [a2 EXCEPT !.width = w.n, !.aborted = TRUE]
             ELSE CubeLoop(args, i2 + 1, a5)

\* The flags main goes on with.  An exception of std::stoi leaves main, and
\* nothing catches it: the process is aborted before any flag is used.
CubeArgs(args) ==
    LET r == CubeLoop(args, 1, [native_output |-> FALSE, webrtc_output |-> FALSE,
                                verbose |-> FALSE, signalling_url |-> DefaultSignallingUrl,
                                width |-> 640, height |-> 480, aborted |-> FALSE])
    IN  IF r.aborted THEN r
        ELSE IF ~r.native_output /\ ~r.webrtc_output THEN [r EXCEPT !.native_output = TRUE]
        ELSE r

(***************************************************************************)
(* The command lines of the run script, of the README and of other starts. *)
(***************************************************************************)
Deployment(relay, cube) == [relay |-> relay, cube |-> cube]

RunScript ==
    Deployment(<< "--verbose" >>,
               << "--native", "--webrtc", "--verbose", "--signalling", "ws://localhost:8080" >>)

Defaults == Deployment(<< >>, << "--webrtc" >>)

Readme == Deployment(<< "--verbose" >>, << "--native", "--webrtc" >>)

Deployments ==
    { RunScript,
      Defaults,
      Readme,
      Deployment(<< "--port", "9080" >>, << "--webrtc", "--signalling", "ws://localhost:9080" >>),
      Deployment(<< "--bogus", "--port" >>, << "--native", "--webrtc" >>),
      Deployment(<< "--port", "0" >>, << "--native" >>),
      Deployment(<< "--port", "70000" >>, << "--native" >>),
      Deployment(<< "--port", "abc" >>, << >>),
      Deployment(<< "--verbose", "--help" >>, << >>) }

(***************************************************************************)
(* A relay that was started with its default port and is in app.run().     *)
(***************************************************************************)
ProcRunning ==
    /\ pc = "run"
    /\ argv = IF verbose THEN << "--verbose" >> ELSE << >>
    /\ port = DefaultPort
    /\ serverStarted = TRUE
    /\ listening = TRUE
    /\ exit_code = -1
    /\ announced = Address(DefaultPort)
    /\ cube_argv = << "--webrtc" >>

(***************************************************************************)
(* The threads that may call into ClientManager, and a thread that is in   *)
(* none of its methods.                                                    *)
(***************************************************************************)
Threads == { "A", "B" }

Outside ==
    [pc |-> "idle", op |-> "", ws |-> 0, i |-> 0, seen |-> <<>>, sent |-> <<>>,
     failed |-> <<>>, next |-> ""]

\* The peers whose send may throw.
MayThrow == { 2 }

LockFree ==
    /\ mutex_ = ""
    /\ th = [t \in Threads |-> Outside]
    /\ stalled = {}
    /\ pending = {}
    /\ log_mutex_ = ""

(***************************************************************************)
(* No connection is followed.                                              *)
(***************************************************************************)
Unwatched ==
    /\ watched = 0
    /\ said = <<>>
    /\ heard = [h \in Handles |-> <<>>]

(***************************************************************************)
(* vtk_cube has not been started.                                          *)
(***************************************************************************)
CubeAbsent ==
    /\ build = ""
    /\ running = TRUE
    /\ scene_dirty = TRUE
    /\ dirty_mutex = FALSE
    /\ waiter = FALSE
    /\ wpc = "none"
    /\ mpc = "none"
    /\ frame_idx = 0
    /\ teardown = <<>>
    /\ session = FALSE

RelayInit ==
    /\ verbose \in BOOLEAN
    /\ clients_ = <<>>
    /\ conn = [h \in Handles |-> "closed"]
    /\ event = Event("init", 0, NoMsg)
    /\ calls = <<>>
    /\ sends = <<>>
    /\ sent_count = 0
    /\ failed_count = 0
    /\ ret = <<>>
    /\ raised = FALSE
    /\ log = <<>>

ClientInit ==
    /\ origin = NullPtr
    /\ path = <<>>
    /\ input = NullPtr
    /\ engine = <<>>
    /\ tx = <<>>
    /\ errlog = <<>>
    /\ described = FALSE

Init == RelayInit /\ ClientInit /\ ProcRunning /\ LockFree /\ Unwatched /\ CubeAbsent

Open == pc = "run" /\ (\E ws \in Handles : OnOpen(ws)) /\ UNCHANGED <<clientVars, procVars, lockVars, orderVars, streamVars>>

Throwing(sender, msg) ==
    IF empty(msg) \/ oversized(msg) THEN {{}} ELSE SUBSET (Range(clients_) \ {sender})

Message ==
    /\ pc = "run"
    /\ \E ws \in Handles, msg \in RelayPayloads :
          \E failSet \in Throwing(ws, msg) : OnMessage(ws, msg, failSet)
    /\ UNCHANGED <<clientVars, procVars, lockVars, orderVars, streamVars>>

Close == pc = "run" /\ (\E ws \in Handles, code \in CloseCodes : OnClose(ws, code)) /\ UNCHANGED <<clientVars, procVars, lockVars, orderVars, streamVars>>

Next == Open \/ Message \/ Close

Spec == Init /\ [][Next]_vars

(***************************************************************************)
(* OrderSpec: the handlers of the relay, with the payloads of one          *)
(* connection followed from its first accepted payload to its second: what *)
(* it sent, and what each other handle was handed of it, in order.         *)
(***************************************************************************)
FirstPayload == Payload("x", 0)

SecondPayload == Payload("{}", MaxMessageSize - 2)

NextPayload == IF said = <<>> THEN FirstPayload ELSE SecondPayload

Handed(h) == { i \in 1..Len(sends') : sends'[i].to = h /\ sends'[i].ok }

OrderOpen ==
    /\ pc = "run"
    /\ \E ws \in Handles : OnOpen(ws)
    /\ UNCHANGED <<clientVars, procVars, lockVars, orderVars, streamVars>>

OrderMessage ==
    /\ pc = "run"
    /\ \E ws \in Handles :
          \E msg \in (IF ws = watched THEN { NextPayload } ELSE { FirstPayload }) :
             \E failSet \in (IF ws = watched THEN Throwing(ws, msg) ELSE { {} }) :
                /\ ws = watched => Len(said) < 2
                /\ OnMessage(ws, msg, failSet)
                /\ said' = IF ws = watched THEN Append(said, msg) ELSE said
                /\ heard' = [h \in Handles |->
                               IF ws = watched /\ Handed(h) # {}
                               THEN heard[h] \o [i \in 1..Cardinality(Handed(h)) |->
                                                   sends'[CHOOSE k \in Handed(h) : TRUE].msg]
                               ELSE heard[h]]
    /\ UNCHANGED <<watched, clientVars, procVars, lockVars, streamVars>>

OrderClose ==
    /\ pc = "run"
    /\ \E ws \in Handles :
          /\ \E code \in CloseCodes : OnClose(ws, code)
          /\ said' = IF ws = watched THEN <<>> ELSE said
          /\ heard' = IF ws = watched THEN [h \in Handles |-> <<>>] ELSE heard
    /\ UNCHANGED <<watched, clientVars, procVars, lockVars, streamVars>>

OrderInit ==
    /\ RelayInit
    /\ verbose = FALSE
    /\ ClientInit
    /\ ProcRunning
    /\ LockFree
    /\ CubeAbsent
    /\ watched \in Handles
    /\ said = <<>>
    /\ heard = [h \in Handles |-> <<>>]

OrderNext == OrderOpen \/ OrderMessage \/ OrderClose

OrderSpec == OrderInit /\ [][OrderNext]_vars

(***************************************************************************)
(* ServerSpec: the life of the relay process, from main() being entered to *)
(* its return or to the process being interrupted inside app.run().        *)
(***************************************************************************)
Quiet ==
    /\ calls' = <<>>
    /\ sends' = <<>>
    /\ sent_count' = 0
    /\ failed_count' = 0
    /\ ret' = <<>>
    /\ raised' = FALSE

(***************************************************************************)
(* main: the first line and the argument loop.                             *)
(***************************************************************************)
MainArgs ==
    /\ pc = "start"
    /\ LET r == ParseArgs(argv, 1,
                          [verbose |-> FALSE, port |-> DefaultPort, exit |-> -1,
                           log |-> << LogLine("INFO", "Starting signaling server...", 0) >>])
       IN  /\ verbose' = r.verbose
           /\ port' = r.port
           /\ log' = r.log
           /\ exit_code' = r.exit
           /\ pc' = IF r.exit = -1 THEN "listen" ELSE "exited"
    /\ event' = Event("main", 0, NoMsg)
    /\ Quiet
    /\ UNCHANGED <<clients_, conn, argv, serverStarted, listening, announced, cube_argv>>

(***************************************************************************)
(* main: app.listen with its callback, the serverStarted test and the      *)
(* entry into app.run().  token: the listen socket could be bound.         *)
(***************************************************************************)
MainListenAnyway(token) ==
    /\ pc = "listen"
    /\ log' = IF token
              THEN << LogLine("INFO", "Signaling server listening on ws://localhost:", port) >>
              ELSE << LogLine("ERROR", "Failed to start server on port ", port) >>
    /\ serverStarted' = token
    /\ listening' = token
    /\ announced' = IF token THEN Address(port) ELSE announced
    /\ pc' = "run"
    /\ event' = Event("listen", 0, NoMsg)
    /\ Quiet
    /\ UNCHANGED <<verbose, clients_, conn, argv, port, exit_code, cube_argv>>

MainListen(token) ==
    /\ pc = "listen"
    /\ IF token
       THEN /\ log' = << LogLine("INFO", "Signaling server listening on ws://localhost:", port),
                         LogLine("INFO", "Server started successfully. Press Ctrl+C to stop.", 0) >>
            /\ serverStarted' = TRUE
            /\ listening' = TRUE
            /\ announced' = Address(port)
            /\ pc' = "run"
            /\ UNCHANGED exit_code
       ELSE /\ log' = << LogLine("ERROR", "Failed to start server on port ", port),
                         LogLine("ERROR", "Server failed to start, check if port ", port) >>
            /\ exit_code' = 1
            /\ pc' = "exited"
            /\ UNCHANGED <<serverStarted, listening, announced>>
    /\ event' = Event("listen", 0, NoMsg)
    /\ Quiet
    /\ UNCHANGED <<verbose, clients_, conn, argv, port, cube_argv>>

(***************************************************************************)
(* SIGINT or SIGTERM while main is in app.run(): the program installs no   *)
(* handler, so the process ends there; no .close handler runs, nothing is  *)
(* closed by the program and main does not return.                         *)
(***************************************************************************)
Interrupted ==
    /\ pc = "run"
    /\ pc' = "killed"
    /\ event' = Event("interrupt", 0, NoMsg)
    /\ log' = <<>>
    /\ Quiet
    /\ UNCHANGED <<verbose, clients_, conn, argv, port, serverStarted, listening,
                   exit_code, announced, cube_argv>>

ServerInit ==
    /\ RelayInit
    /\ verbose = FALSE
    /\ ClientInit
    /\ pc = "start"
    /\ \E d \in Deployments : argv = d.relay /\ cube_argv = d.cube
    /\ port = DefaultPort
    /\ serverStarted = FALSE
    /\ listening = FALSE
    /\ exit_code = -1
    /\ announced = ""
    /\ LockFree
    /\ Unwatched
    /\ CubeAbsent

Start == MainArgs /\ UNCHANGED <<clientVars, lockVars, orderVars, streamVars>>

Listen == (\E token \in BOOLEAN : MainListen(token)) /\ UNCHANGED <<clientVars, lockVars, orderVars, streamVars>>

Interrupt == Interrupted /\ UNCHANGED <<clientVars, lockVars, orderVars, streamVars>>

ServerNext == Start \/ Listen \/ Open \/ Message \/ Close \/ Interrupt

ServerSpec == ServerInit /\ [][ServerNext]_vars

(***************************************************************************)
(* LockSpec: the methods of ClientManager called from several threads at   *)
(* once, one step per lock operation and per iteration of the broadcast    *)
(* loop.  Each method begins with std::lock_guard<std::mutex> lock(mutex_) *)
(* and the guard is destroyed when the method returns.                     *)
(***************************************************************************)
Entered(t, op, ws) == [Outside EXCEPT !.pc = "wait", !.op = op, !.ws = ws]

Busy(ws) == \E u \in Threads : th[u].pc # "idle" /\ th[u].ws = ws

LockFrame ==
    UNCHANGED <<verbose, event, calls, sends, sent_count, failed_count, ret, raised, log,
                clientVars, procVars, stalled, orderVars, streamVars>>

(***************************************************************************)
(* A thread enters a method: addClient for a connection that opens,        *)
(* removeClient for one that closes, broadcastMessage for a message of an  *)
(* open one, or getClientCount.  The events of one connection are in order.*)
(* With verbose the .message and the .close handler first call             *)
(* Logger::info, holding nothing, and then the method.                     *)
(***************************************************************************)
EnterAdd(t, ws) ==
    /\ th[t].pc = "idle"
    /\ conn[ws] = "closed"
    /\ ~Busy(ws)
    /\ conn' = [conn EXCEPT ![ws] = "open"]
    /\ th' = [th EXCEPT ![t] = Entered(t, "addClient", ws)]
    /\ UNCHANGED <<clients_, mutex_, pending>>
    /\ UNCHANGED log_mutex_
    /\ LockFrame

EnterRemove(t, ws) ==
    /\ th[t].pc = "idle"
    /\ conn[ws] = "open"
    /\ ~Busy(ws)
    /\ conn' = [conn EXCEPT ![ws] = "closed"]
    /\ pending' = pending \ {ws}
    /\ th' = [th EXCEPT ![t] =
                IF verbose
                THEN [Entered(t, "removeClient", ws) EXCEPT !.pc = "log", !.next = "wait"]
                ELSE Entered(t, "removeClient", ws)]
    /\ UNCHANGED <<clients_, mutex_>>
    /\ UNCHANGED log_mutex_
    /\ LockFrame

EnterBroadcast(t, ws) ==
    /\ th[t].pc = "idle"
    /\ conn[ws] = "open"
    /\ ~Busy(ws)
    /\ th' = [th EXCEPT ![t] =
                IF verbose
                THEN [Entered(t, "broadcastMessage", ws) EXCEPT !.pc = "log", !.next = "wait"]
                ELSE Entered(t, "broadcastMessage", ws)]
    /\ UNCHANGED <<clients_, conn, mutex_, pending>>
    /\ UNCHANGED log_mutex_
    /\ LockFrame

EnterCount(t) ==
    /\ th[t].pc = "idle"
    /\ th' = [th EXCEPT ![t] = Entered(t, "getClientCount", 0)]
    /\ UNCHANGED <<clients_, conn, mutex_, pending>>
    /\ UNCHANGED log_mutex_
    /\ LockFrame

(***************************************************************************)
(* std::lock_guard<std::mutex> lock(mutex_): the thread goes on when it    *)
(* has the mutex.                                                          *)
(***************************************************************************)
lock_guardBarging(t) ==
    /\ th[t].pc = "wait"
    /\ mutex_' = t
    /\ th' = [th EXCEPT ![t] = [@ EXCEPT !.pc = "in", !.i = 1, !.seen = clients_]]
    /\ UNCHANGED <<clients_, conn, pending>>
    /\ UNCHANGED log_mutex_
    /\ LockFrame

lock_guard(t) ==
    /\ th[t].pc = "wait"
    /\ mutex_ = ""
    /\ mutex_' = t
    /\ th' = [th EXCEPT ![t] = [@ EXCEPT !.pc = "in", !.i = 1, !.seen = clients_]]
    /\ UNCHANGED <<clients_, conn, pending>>
    /\ UNCHANGED log_mutex_
    /\ LockFrame

(***************************************************************************)
(* The body of addClient, removeClient or getClientCount up to its Logger  *)
(* call; getClientCount has none and returns, which destroys the guard.    *)
(***************************************************************************)
Body(t) ==
    /\ th[t].pc = "in"
    /\ th[t].op \in { "addClient", "removeClient", "getClientCount" }
    /\ clients_' = CASE th[t].op = "addClient" -> addClient(clients_, th[t].ws).clients
                     [] th[t].op = "removeClient" -> removeClient(clients_, th[t].ws).clients
                     [] OTHER -> clients_
    /\ IF th[t].op = "getClientCount"
       THEN /\ mutex_' = ""
            /\ th' = [th EXCEPT ![t] = Outside]
       ELSE /\ mutex_' = mutex_
            /\ th' = [th EXCEPT ![t] = [@ EXCEPT !.pc = "log", !.next = "ret"]]
    /\ UNCHANGED <<conn, pending>>
    /\ UNCHANGED log_mutex_
    /\ LockFrame

(***************************************************************************)
(* The .message handler given an empty or an oversized payload: with       *)
(* verbose Logger::info, then Logger::warn and return, with no call into   *)
(* ClientManager.                                                          *)
(***************************************************************************)
EnterDrop(t, ws) ==
    /\ th[t].pc = "idle"
    /\ conn[ws] = "open"
    /\ ~Busy(ws)
    /\ th' = [th EXCEPT ![t] =
                [Outside EXCEPT !.pc = "log", !.op = "drop", !.ws = ws,
                                !.next = IF verbose THEN "warn" ELSE ""]]
    /\ UNCHANGED <<clients_, conn, mutex_, pending, log_mutex_>>
    /\ LockFrame

(***************************************************************************)
(* Logger::info / warn / error: std::lock_guard on Logger::mutex_, the     *)
(* line, and the return, which releases Logger::mutex_ only.  The caller   *)
(* goes on where the call was made: at the lock_guard of the method the    *)
(* handler calls next, in the loop of broadcastMessage, at the second      *)
(* summary line of broadcastMessage (verbose && sent_count > 0) after the  *)
(* first, or at its return.  The handler of a dropped payload holds no     *)
(* other mutex: after its Logger::info it calls Logger::warn, and after    *)
(* that it returns.                                                        *)
(***************************************************************************)
LoggerLock(t) ==
    /\ th[t].pc = "log"
    /\ log_mutex_ = ""
    /\ log_mutex_' = t
    /\ th' = [th EXCEPT ![t] = [@ EXCEPT !.pc = "logging"]]
    /\ UNCHANGED <<clients_, conn, mutex_, pending>>
    /\ LockFrame

AfterLogger(r) ==
    IF r.next = "warn" THEN [r EXCEPT !.pc = "log", !.next = ""]
    ELSE IF r.op = "drop" THEN Outside
    ELSE IF r.next = "tail" /\ verbose /\ r.sent # <<>>
    THEN [r EXCEPT !.pc = "log", !.next = "ret"]
    ELSE IF r.next = "tail" THEN [r EXCEPT !.pc = "ret", !.next = ""]
    ELSE [r EXCEPT !.pc = r.next, !.next = ""]

LoggerUnlockHolding(t) ==
    /\ th[t].pc = "logging"
    /\ th' = [th EXCEPT ![t] = AfterLogger(@)]
    /\ UNCHANGED <<clients_, conn, mutex_, pending, log_mutex_>>
    /\ LockFrame

LoggerUnlock(t) ==
    /\ th[t].pc = "logging"
    /\ log_mutex_' = ""
    /\ th' = [th EXCEPT ![t] = AfterLogger(@)]
    /\ UNCHANGED <<clients_, conn, mutex_, pending>>
    /\ LockFrame

(***************************************************************************)
(* broadcastMessage: one iteration of the loop over clients_, up to the    *)
(* call of client->send for a client that is not the sender.               *)
(***************************************************************************)
Iterate(t) ==
    /\ th[t].pc = "in"
    /\ th[t].op = "broadcastMessage"
    /\ th[t].i <= Len(clients_)
    /\ th' = [th EXCEPT ![t] = IF clients_[th[t].i] = th[t].ws
                               THEN [@ EXCEPT !.i = @ + 1]
                               ELSE [@ EXCEPT !.pc = "send"]]
    /\ UNCHANGED <<clients_, conn, mutex_, pending>>
    /\ UNCHANGED log_mutex_
    /\ LockFrame

(***************************************************************************)
(* client->send comes back: it returns (sent_count++, and with verbose a   *)
(* Logger::info) or it throws (failed_count++ and a Logger::error).  The   *)
(* call is made with ClientManager::mutex_ held and with no timeout; what  *)
(* it handed over to a peer that does not read stays pending.              *)
(***************************************************************************)
SendReturn(t) ==
    /\ th[t].pc = "send"
    /\ LET client == clients_[th[t].i] IN
       \E threw \in (IF client \in MayThrow THEN BOOLEAN ELSE { FALSE }) :
          /\ th' = [th EXCEPT ![t] =
                      IF threw
                      THEN [@ EXCEPT !.i = @ + 1, !.failed = Append(@, client),
                                     !.pc = "log", !.next = "in"]
                      ELSE [@ EXCEPT !.i = @ + 1, !.sent = Append(@, client),
                                     !.pc = IF verbose THEN "log" ELSE "in",
                                     !.next = IF verbose THEN "in" ELSE ""]]
          /\ pending' = IF ~threw /\ client \in stalled
                        THEN pending \cup {client} ELSE pending
    /\ UNCHANGED <<clients_, conn, mutex_>>
    /\ UNCHANGED log_mutex_
    /\ LockFrame

\* A send to a peer that reads what it is sent.
HealthyReturn(t) ==
    /\ th[t].pc = "send"
    /\ clients_[th[t].i] \notin stalled
    /\ SendReturn(t)

(***************************************************************************)
(* broadcastMessage: the end of the loop.  With failed_count > 0 the       *)
(* method calls Logger::warn, else with verbose && sent_count > 0 it calls *)
(* Logger::info, else it is at its return.                                 *)
(***************************************************************************)
Return(t) ==
    /\ th[t].pc = "in"
    /\ th[t].op = "broadcastMessage"
    /\ th[t].i > Len(clients_)
    /\ th' = [th EXCEPT ![t] =
                IF th[t].failed # <<>> THEN [@ EXCEPT !.pc = "log", !.next = "tail"]
                ELSE IF verbose /\ th[t].sent # <<>>
                THEN [@ EXCEPT !.pc = "log", !.next = "ret"]
                ELSE [@ EXCEPT !.pc = "ret"]]
    /\ UNCHANGED <<clients_, conn, mutex_, pending>>
    /\ UNCHANGED log_mutex_
    /\ LockFrame

(***************************************************************************)
(* addClient, removeClient and broadcastMessage return: the guard on       *)
(* ClientManager::mutex_ is destroyed.                                     *)
(***************************************************************************)
MethodReturn(t) ==
    /\ th[t].pc = "ret"
    /\ mutex_ = t
    /\ mutex_' = ""
    /\ th' = [th EXCEPT ![t] = Outside]
    /\ UNCHANGED <<clients_, conn, pending>>
    /\ UNCHANGED log_mutex_
    /\ LockFrame

StalledChoices == { {}, {1} }

LockStart ==
    /\ RelayInit
    /\ ClientInit
    /\ ProcRunning
    /\ mutex_ = ""
    /\ th = [t \in Threads |-> Outside]
    /\ pending = {}
    /\ log_mutex_ = ""
    /\ Unwatched
    /\ CubeAbsent

LockInit == LockStart /\ verbose = FALSE /\ stalled \in StalledChoices

Enter ==
    \E t \in Threads :
       \/ \E ws \in Handles :
             EnterAdd(t, ws) \/ EnterRemove(t, ws) \/ EnterBroadcast(t, ws) \/ EnterDrop(t, ws)
       \/ EnterCount(t)

Acquire == \E t \in Threads : lock_guard(t)

Run == \E t \in Threads : Body(t)

Step == \E t \in Threads : Iterate(t) \/ SendReturn(t)

Leave == \E t \in Threads : Return(t) \/ MethodReturn(t)

Write == \E t \in Threads : LoggerLock(t) \/ LoggerUnlock(t)

LockNext == Enter \/ Acquire \/ Run \/ Step \/ Leave \/ Write

LockSpec == LockInit /\ [][LockNext]_vars

(***************************************************************************)
(* LockLive: every thread that can take a step inside ClientManager or     *)
(* Logger is scheduled in the end.  A thread waiting for a mutex gets it   *)
(* only if the mutex stays free until it is scheduled: std::mutex hands    *)
(* over to no particular waiter.  A send to a peer that reads returns; the *)
(* return of a send to a peer that does not read is not promised by        *)
(* anything in the method.  Nothing makes a thread call a method.          *)
(***************************************************************************)
LockFair ==
    \A t \in Threads :
       /\ WF_vars(lock_guard(t))
       /\ WF_vars(Body(t))
       /\ WF_vars(Iterate(t))
       /\ WF_vars(HealthyReturn(t))
       /\ WF_vars(Return(t))
       /\ WF_vars(MethodReturn(t))
       /\ WF_vars(LoggerLock(t))
       /\ WF_vars(LoggerUnlock(t))

LockLive == LockSpec /\ LockFair

(***************************************************************************)
(* LockHealthy: the same threads and scheduling, every peer reads what is  *)
(* sent to it, and verbose is on or off.                                   *)
(***************************************************************************)
HealthyInit == LockStart /\ stalled = {}

LockHealthy == HealthyInit /\ [][LockNext]_vars /\ LockFair

(***************************************************************************)
(* RegistrySpec: the public methods of ClientManager called directly, by a *)
(* caller that need not respect the connection life cycle.                 *)
(***************************************************************************)
CallAdd(ws) ==
    /\ Len(clients_) < MaxMembers
    /\ LET r == addClient(clients_, ws) IN
       /\ clients_' = r.clients
       /\ log' = r.log
       /\ raised' = r.raised
    /\ event' = Event("addClient", ws, NoMsg)
    /\ calls' = << Call("addClient", ws) >>
    /\ sends' = <<>>
    /\ sent_count' = 0
    /\ failed_count' = 0
    /\ ret' = <<>>
    /\ UNCHANGED <<verbose, conn>>

CallRemove(ws) ==
    /\ LET r == removeClient(clients_, ws) IN
       /\ clients_' = r.clients
       /\ log' = r.log
       /\ raised' = r.raised
    /\ event' = Event("removeClient", ws, NoMsg)
    /\ calls' = << Call("removeClient", ws) >>
    /\ sends' = <<>>
    /\ sent_count' = 0
    /\ failed_count' = 0
    /\ ret' = <<>>
    /\ UNCHANGED <<verbose, conn>>

CallBroadcast(sender, message, failSet) ==
    /\ \E b \in { broadcastMessage(clients_, sender, message, verbose, failSet) } :
       /\ log' = b.log
       /\ raised' = b.raised
       /\ sends' = b.sends
       /\ sent_count' = b.sent_count
       /\ failed_count' = b.failed_count
    /\ event' = Event("broadcastMessage", sender, message)
    /\ calls' = << Call("broadcastMessage", sender) >>
    /\ ret' = <<>>
    /\ UNCHANGED <<verbose, clients_, conn>>

CallCount ==
    /\ ret' = << getClientCount(clients_) >>
    /\ event' = Event("getClientCount", 0, NoMsg)
    /\ calls' = << Call("getClientCount", 0) >>
    /\ sends' = <<>>
    /\ sent_count' = 0
    /\ failed_count' = 0
    /\ raised' = FALSE
    /\ log' = <<>>
    /\ UNCHANGED <<verbose, clients_, conn>>

Add == (\E ws \in Handles : CallAdd(ws)) /\ UNCHANGED <<clientVars, procVars, lockVars, orderVars, streamVars>>

Remove == (\E ws \in Handles : CallRemove(ws)) /\ UNCHANGED <<clientVars, procVars, lockVars, orderVars, streamVars>>

\* broadcastMessage takes any std::string_view: the empty and the oversized
\* payload, which the .message handler never passes on, included.
RegistryPayloads == RelayPayloads

Broadcast ==
    /\ \E sender \in Handles, message \in RegistryPayloads :
          \E failSet \in SUBSET (Range(clients_) \ {sender}) :
              CallBroadcast(sender, message, failSet)
    /\ UNCHANGED <<clientVars, procVars, lockVars, orderVars, streamVars>>

Count == CallCount /\ UNCHANGED <<clientVars, procVars, lockVars, orderVars, streamVars>>

RegistryNext == Add \/ Remove \/ Broadcast \/ Count

RegistrySpec == Init /\ [][RegistryNext]_vars

(***************************************************************************)
(* AdapterSpec: the signalling client between the relay and the engine.    *)
(* The texts it is given: the two encodings of every signalling primitive  *)
(* over small value sets, and texts that are neither.                      *)
(***************************************************************************)
Sdps == { "", "v=0" }

Candidates == { "candidate:1 1 UDP" }

Mids == { "", "0" }

LineIndexes ==
    { Zero, Small(1), Num(1, 32767, 65535), Num(1, 32768, 0), Num(1, 65535, 65535) }

Primitive(tag, sdp, candidate, mid, index) ==
    [tag |-> tag, sdp |-> sdp, candidate |-> candidate,
     sdp_mid |-> mid, sdp_mline_index |-> index]

Primitives ==
    { Primitive(tag, sdp, "", "", Zero) : tag \in {"Offer", "Answer"}, sdp \in Sdps }
    \cup { Primitive("IceCandidate", "", c, mid, index) :
              c \in Candidates, mid \in Mids, index \in LineIndexes }

FlatEncoding(x) ==
    IF x.tag = "IceCandidate"
    THEN JObject(<< <<"candidate", JString(x.candidate)>>,
                    <<"sdpMid", JString(x.sdp_mid)>>,
                    <<"sdpMLineIndex", JNumber(x.sdp_mline_index)>> >>)
    ELSE JObject(<< <<"type", JString(IF x.tag = "Offer" THEN "offer" ELSE "answer")>>,
                    <<"sdp", JString(x.sdp)>> >>)

NestedEncoding(x) ==
    IF x.tag = "IceCandidate"
    THEN JObject(<< <<"type", JString("IceCandidate")>>,
                    <<"data", JObject(<< <<"candidate", JString(x.candidate)>>,
                                         <<"sdp_mid", JString(x.sdp_mid)>>,
                                         <<"sdp_mline_index", JNumber(x.sdp_mline_index)>> >>)>> >>)
    ELSE JObject(<< <<"type", JString(x.tag)>>,
                    <<"data", JObject(<< <<"sdp", JString(x.sdp)>> >>)>> >>)

FlatEncodings == { FlatEncoding(x) : x \in Primitives }

NestedEncodings == { NestedEncoding(x) : x \in Primitives }

OtherTexts ==
    { Garbage("not json"),
      JNumber(Small(5)),
      JObject(<< <<"foo", JString("bar")>> >>),
      JObject(<< <<"type", JNumber(Small(5))>> >>),
      JObject(<< <<"type", JString("answer")>> >>),
      JObject(<< <<"type", JString("answer")>>, <<"sdp", JNumber(Small(5))>> >>),
      JObject(<< <<"sdp", JString("v=0")>>, <<"foo", JString("bar")>>,
                 <<"type", JString("offer")>> >>),
      JObject(<< <<"type", JString("candidate")>>,
                 <<"candidate", JString("candidate:1 1 UDP")>>,
                 <<"sdpMid", JString("0")>>,
                 <<"sdpMLineIndex", JNumber(Small(0))>> >>),
      JObject(<< <<"candidate", JString("candidate:1 1 UDP")>>,
                 <<"sdpMid", JString("0")>>,
                 <<"sdpMLineIndex", JNumber(Small(0))>>,
                 <<"usernameFragment", JString("bar")>> >>),
      JObject(<< <<"candidate", JString("candidate:1 1 UDP")>>,
                 <<"sdpMid", JString("0")>>,
                 <<"sdpMLineIndex", JNumber(Small(-1))>> >>),
      JObject(<< <<"candidate", JString("candidate:1 1 UDP")>>,
                 <<"sdpMid", JNull>>,
                 <<"sdpMLineIndex", JNumber(Small(0))>> >>),
      JObject(<< <<"candidate", JString("candidate:1 1 UDP")>>,
                 <<"sdpMid", JString("0")>> >>),
      JObject(<< <<"type", JString("Offer")>> >>),
      JObject(<< <<"type", JString("Offer")>>, <<"data", JString("v=0")>> >>),
      JObject(<< <<"type", JString("Answer")>>,
                 <<"data", JObject(<< <<"sdp", JNumber(Small(5))>> >>)>> >>),
      JObject(<< <<"type", JString("Bye")>>, <<"data", JObject(<<>>)>> >>),
      JObject(<< <<"type", JString("IceCandidate")>>,
                 <<"data", JObject(<< <<"candidate", JString("candidate:1 1 UDP")>>,
                                      <<"sdp_mid", JString("0")>> >>)>> >>),
      JObject(<< <<"type", JString("IceCandidate")>>,
                 <<"data", JObject(<< <<"candidate", JString("candidate:1 1 UDP")>>,
                                      <<"sdp_mid", JString("0")>>,
                                      <<"sdp_mline_index", JNumber(Small(-1))>> >>)>> >>),
      JObject(<< <<"type", JString("IceCandidate")>>,
                 <<"data", JObject(<< <<"candidate", JString("candidate:1 1 UDP")>>,
                                      <<"sdp_mid", JString("0")>>,
                                      <<"sdp_mline_index", JString("0")>> >>)>> >>),
      JObject(<< <<"type", JString("IceCandidate")>>,
                 <<"data", JObject(<< <<"candidate", JString("candidate:1 1 UDP")>>,
                                      <<"sdp_mid", JString("0")>>,
                                      <<"sdp_mline_index", JBoolean(TRUE)>> >>)>> >>),
      JObject(<< <<"type", JString("IceCandidate")>>,
                 <<"data", JObject(<< <<"candidate", JString("candidate:1 1 UDP")>>,
                                      <<"sdp_mid", JString("0")>>,
                                      <<"sdp_mline_index", JNumber(Small(0))>>,
                                      <<"usernameFragment", JString("bar")>> >>)>> >>) }

Texts == FlatEncodings \cup NestedEncodings \cup OtherTexts

(***************************************************************************)
(* The engine invokes the signal callback with a text, or with no text.    *)
(***************************************************************************)
EngineSignals(flat_msg_cstr) ==
    LET r == signal_callback(flat_msg_cstr) IN
    /\ origin' = flat_msg_cstr
    /\ path' = << "signal_callback" >>
    /\ input' = flat_msg_cstr
    /\ engine' = r.engine
    /\ tx' = r.tx
    /\ errlog' = r.errlog
    /\ UNCHANGED described

(***************************************************************************)
(* IXWebSocket delivers a message of the relay to the on_message lambda.   *)
(***************************************************************************)
Describes(es) ==
    \E i \in 1..Len(es) : es[i].fn = "webrtc_session_set_remote_description"

RelayDeliversBuffered(msg) ==
    LET r == on_message(msg) IN
    /\ origin' = msg
    /\ path' = << "on_message" >>
    /\ input' = msg
    /\ engine' = IF described \/ Describes(r.engine) THEN r.engine ELSE <<>>
    /\ tx' = r.tx
    /\ errlog' = r.errlog
    /\ described' = (described \/ Describes(r.engine))

RelayDelivers(msg) ==
    LET r == on_message(msg) IN
    /\ origin' = msg
    /\ path' = << "on_message" >>
    /\ input' = msg
    /\ engine' = r.engine
    /\ tx' = r.tx
    /\ errlog' = r.errlog
    /\ described' = (described \/ Describes(r.engine))

(***************************************************************************)
(* The remote peer sends back the text it was just sent.                   *)
(***************************************************************************)
PeerEchoes ==
    /\ path = << "signal_callback" >>
    /\ tx # <<>>
    /\ LET r == on_message(tx[1]) IN
       /\ path' = << "signal_callback", "on_message" >>
       /\ input' = tx[1]
       /\ engine' = r.engine
       /\ tx' = r.tx
       /\ errlog' = r.errlog
       /\ described' = (described \/ Describes(r.engine))
    /\ UNCHANGED origin

(***************************************************************************)
(* The engine signals the payload it was just handed.                      *)
(***************************************************************************)
EngineEchoes ==
    /\ path = << "on_message" >>
    /\ engine # <<>>
    /\ LET r == signal_callback(engine[1].payload) IN
       /\ path' = << "on_message", "signal_callback" >>
       /\ input' = engine[1].payload
       /\ engine' = r.engine
       /\ tx' = r.tx
       /\ errlog' = r.errlog
       /\ UNCHANGED described
    /\ UNCHANGED origin

AdapterInit ==
    RelayInit /\ verbose = FALSE /\ ClientInit /\ ProcRunning /\ LockFree /\ Unwatched /\ CubeAbsent

Signal == (\E t \in Texts \cup {NullPtr} : EngineSignals(t)) /\ UNCHANGED <<relayVars, procVars, lockVars, orderVars, streamVars>>

Deliver == (\E t \in Texts : RelayDelivers(t)) /\ UNCHANGED <<relayVars, procVars, lockVars, orderVars, streamVars>>

EchoPeer == PeerEchoes /\ UNCHANGED <<relayVars, procVars, lockVars, orderVars, streamVars>>

EchoEngine == EngineEchoes /\ UNCHANGED <<relayVars, procVars, lockVars, orderVars, streamVars>>

AdapterNext == Signal \/ Deliver \/ EchoPeer \/ EchoEngine

AdapterSpec == AdapterInit /\ [][AdapterNext]_vars

(***************************************************************************)
(* Properties of the relay and of the registry.                            *)
(***************************************************************************)
Others(cl, sender) == { c \in Range(cl) : c # sender }

Entries(cl, sender) == { i \in 1..Len(cl) : cl[i] # sender }

SendsTo(c) == { i \in 1..Len(sends) : sends[i].to = c }

OkSendsTo(c) == { i \in SendsTo(c) : sends[i].ok }

Failed == { i \in 1..Len(sends) : ~sends[i].ok }

Last(s) == s[Len(s)]

Relayed == event.kind = "message" /\ calls = << Call("broadcastMessage", event.ws) >>

\* C1: fan-out correctness.  For an accepted payload sent by connection i,
\* send is called exactly once for each of the other registered connections
\* and never for i; a connection whose send did not throw receives the
\* payload exactly once, every other connection receives nothing, and when
\* no send throws the receivers are exactly the other N-1 connections.
FanOutCorrect ==
    Relayed =>
        /\ \A c \in Handles :
              /\ Cardinality(SendsTo(c)) =
                    IF c \in Others(clients_, event.ws) THEN 1 ELSE 0
              /\ inbox(c) = IF OkSendsTo(c) # {} THEN << event.msg >> ELSE <<>>
        /\ SendsTo(event.ws) = {}
        /\ Len(sends) = Len(clients_) - 1
        /\ failed_count = 0 =>
              { c \in Handles : OkSendsTo(c) # {} } = Others(clients_, event.ws)

FanOutWitness ==
    /\ Relayed
    /\ Len(clients_) = 3
    /\ failed_count = 0
    /\ \A c \in Others(clients_, event.ws) : inbox(c) = << event.msg >>
    /\ inbox(event.ws) = <<>>

\* C2: verbatim relay.  Every send of a message handler carries exactly the
\* payload the handler received, text and length, and what a recipient
\* receives is that payload; a non-empty payload within the size limit is
\* sent to every other registered connection whatever its text is.
VerbatimRelay ==
    event.kind = "message" =>
        /\ \A i \in 1..Len(sends) :
              /\ sends[i].msg = event.msg
              /\ sends[i].ok => \A k \in 1..Len(inbox(sends[i].to)) :
                                    inbox(sends[i].to)[k] = event.msg
        /\ (length(event.msg) >= 1 /\ length(event.msg) <= MaxMessageSize) =>
              { sends[i].to : i \in 1..Len(sends) } = Others(clients_, event.ws)

VerbatimWitness ==
    /\ event.kind = "message"
    /\ event.msg = Payload("{}", MaxMessageSize - 2)
    /\ \E i \in 1..Len(sends) : sends[i].ok /\ inbox(sends[i].to) = << event.msg >>

\* C3: size and emptiness policy.  A message handler relays its payload if
\* and only if the payload has between 1 and 65536 bytes; for a payload of
\* 0 bytes or of more than 65536 bytes no send is made and no connection
\* receives anything.
SizePolicy ==
    [][ event'.kind = "message" =>
          IF length(event'.msg) >= 1 /\ length(event'.msg) <= 65536
          THEN /\ calls' = << Call("broadcastMessage", event'.ws) >>
               /\ { sends'[i].to : i \in 1..Len(sends') } = Others(clients_, event'.ws)
               /\ \A i \in 1..Len(sends') :
                     sends'[i].ok => Received(sends', sends'[i].to) = << event'.msg >>
          ELSE /\ calls' = <<>>
               /\ sends' = <<>>
               /\ \A c \in Handles : Received(sends', c) = <<>> ]_vars

SizePolicyWitness ==
    /\ event.kind = "message"
    /\ length(event.msg) = 65536
    /\ \E i \in 1..Len(sends) : sends[i].ok /\ inbox(sends[i].to) = << event.msg >>

\* C4: partial-failure isolation.  When exactly one send of a broadcast
\* throws, every other recipient still receives the payload, the counters
\* are 1 failure and N-2 successes and the warning reports 1 failure; in
\* every broadcast a send is attempted for each recipient, also for those
\* iterated after a failed one.
PartialFailureIsolation ==
    Relayed =>
        /\ Len(sends) = Cardinality(Others(clients_, event.ws))
        /\ Cardinality(Failed) = 1 =>
              /\ failed_count = 1
              /\ sent_count = Cardinality(Others(clients_, event.ws)) - 1
              /\ \A c \in Others(clients_, event.ws) :
                    (\A i \in Failed : sends[i].to # c) =>
                        inbox(c) = << event.msg >>
              /\ \E k \in 1..Len(log) :
                    log[k] = LogLine("WARN", "Failed to send message to n clients", 1)

PartialFailureWitness ==
    /\ Relayed
    /\ Len(sends) = 2
    /\ ~sends[1].ok
    /\ sends[2].ok
    /\ inbox(sends[2].to) = << event.msg >>
    /\ failed_count = 1

\* C5 as claimed: broadcastMessage returns the pair of its success count
\* and its failure count to the caller.
BroadcastReturnsCounts ==
    event.kind = "broadcastMessage" =>
        /\ ret = << sent_count, failed_count >>
        /\ ~raised
        /\ sent_count + failed_count = Cardinality(Entries(clients_, event.ws))

\* C5 as amended: broadcastMessage returns nothing; it counts the sends that
\* did not throw and those that threw, never lets an exception escape, the
\* two counts sum to the number of registry entries other than the sender,
\* the success count is the number of payloads handed to recipients, and
\* the counts are only logged: the failure count in a warning when it is
\* positive, the success count in an info line when verbose and positive.
BroadcastCountsLogged ==
    event.kind = "broadcastMessage" =>
        /\ ret = <<>>
        /\ ~raised
        /\ sent_count + failed_count = Cardinality(Entries(clients_, event.ws))
        /\ sent_count = Cardinality({ i \in 1..Len(sends) : sends[i].ok })
        /\ failed_count = Cardinality(Failed)
        /\ (failed_count > 0) <=>
              \E k \in 1..Len(log) :
                 log[k] = LogLine("WARN", "Failed to send message to n clients", failed_count)
        /\ (verbose /\ sent_count > 0) <=>
              \E k \in 1..Len(log) :
                 log[k] = LogLine("INFO", "Message sent to n clients", sent_count)

BroadcastCountsWitness ==
    /\ event.kind = "broadcastMessage"
    /\ sent_count >= 1
    /\ failed_count >= 1
    /\ ~verbose

\* C6: removeClient on a connection that is not registered leaves the
\* member list and the count as they were, lets no exception escape and
\* logs exactly one line, a warning.
RemoveAbsentNoOp ==
    [][ (event'.kind = "removeClient" /\ event'.ws \notin Range(clients_)) =>
          /\ clients_' = clients_
          /\ getClientCount(clients_') = getClientCount(clients_)
          /\ ~raised'
          /\ log' = << LogLine("WARN", "Attempted to remove non-existent client", 0) >> ]_vars

RemoveAbsentWitness ==
    /\ event.kind = "removeClient"
    /\ event.ws \notin Range(clients_)
    /\ Len(clients_) >= 2
    /\ log = << LogLine("WARN", "Attempted to remove non-existent client", 0) >>

\* C7: after any sequence of open and close events the registry holds
\* exactly the connections that are open, and getClientCount is their
\* number.
RegistryTracksOpen ==
    LET open == { h \in Handles : conn[h] = "open" } IN
    /\ Range(clients_) = open
    /\ getClientCount(clients_) = Cardinality(open)

RegistryTracksWitness ==
    /\ event.kind = "close"
    /\ Len(clients_) = 2
    /\ clients_[1] > clients_[2]
    /\ \E h \in Handles : conn[h] = "closed"

\* C8: a connection is open, relays, and is closed.  A handle becomes open
\* only by a handler that calls addClient for it exactly once, it becomes
\* closed only from open and by a handler that calls removeClient for it
\* exactly once, no other handler calls addClient or removeClient, and a
\* payload is relayed only for a sender that is open before and after the
\* handler, to recipients that are open.
ConnectionLifecycle ==
    [][ /\ \A h \in Handles :
              /\ conn'[h] # conn[h] =>
                    \/ /\ conn[h] = "closed"
                       /\ conn'[h] = "open"
                       /\ calls' = << Call("addClient", h) >>
                    \/ /\ conn[h] = "open"
                       /\ conn'[h] = "closed"
                       /\ calls' = << Call("removeClient", h) >>
              /\ (\E i \in 1..Len(calls') : calls'[i] = Call("addClient", h)) =>
                    conn[h] # "open" /\ conn'[h] = "open"
              /\ (\E i \in 1..Len(calls') : calls'[i] = Call("removeClient", h)) =>
                    conn[h] = "open" /\ conn'[h] = "closed"
              /\ (\E i \in 1..Len(calls') : calls'[i] = Call("broadcastMessage", h)) =>
                    conn[h] = "open" /\ conn'[h] = "open"
        /\ sends' # <<>> =>
              /\ calls' = << Call("broadcastMessage", event'.ws) >>
              /\ \A i \in 1..Len(sends') : conn'[sends'[i].to] = "open" ]_vars

LifecycleWitness ==
    /\ event.kind = "close"
    /\ conn[event.ws] = "closed"
    /\ calls = << Call("removeClient", event.ws) >>
    /\ \E h \in Handles : conn[h] = "open"

(***************************************************************************)
(* Properties of the schema adapter.                                       *)
(***************************************************************************)
\* C9: round-trip law.  For the flat encoding of every well-formed
\* primitive, the signal callback followed by on_message hands the engine
\* exactly one payload that is the same JSON value as the original; for the
\* nested encoding, on_message followed by the signal callback sends the
\* relay exactly one text that is the same JSON value as the original.
RoundTripLaw ==
    /\ (path = << "signal_callback", "on_message" >> /\ origin \in FlatEncodings) =>
          /\ Len(engine) = 1
          /\ parse(engine[1].payload) = parse(origin)
    /\ (path = << "on_message", "signal_callback" >> /\ origin \in NestedEncodings) =>
          /\ Len(tx) = 1
          /\ parse(tx[1]) = parse(origin)

\* C10: schema translation fidelity.  The signal callback given a flat
\* message whose type is "answer" (resp. "offer") and whose sdp is the
\* string s sends the relay exactly one text, the nested message with type
\* "Answer" (resp. "Offer") and data.sdp = s and nothing else.
NestedSdp(name, s) ==
    JObject(<< <<"type", JString(name)>>,
               <<"data", JObject(<< <<"sdp", JString(s)>> >>)>> >>)

SdpTranslation ==
    (/\ path # <<>>
     /\ Last(path) = "signal_callback"
     /\ input.k = "object"
     /\ contains(parse(input), "type")
     /\ at(parse(input), "type") \in { JString("answer"), JString("offer") }
     /\ contains(parse(input), "sdp")
     /\ at(parse(input), "sdp").k = "string") =>
        /\ Len(tx) = 1
        /\ tx[1].k = "object"
        /\ parse(tx[1]) =
              parse(NestedSdp(IF at(parse(input), "type").s = "answer"
                              THEN "Answer" ELSE "Offer",
                              at(parse(input), "sdp").s))

SdpTranslationWitness ==
    /\ path = << "signal_callback" >>
    /\ input = JObject(<< <<"type", JString("answer")>>, <<"sdp", JString("v=0")>> >>)
    /\ parse(tx[1]) = parse(NestedSdp("Answer", "v=0"))

Keys(j) == { j.m[i][1] : i \in 1..Len(j.m) }

Signalled == path # <<>> /\ Last(path) = "signal_callback"

Delivered == path # <<>> /\ Last(path) = "on_message"

HasString(j, key) == contains(j, key) /\ at(j, key).k = "string"

HasUnsigned(j, key) ==
    contains(j, key) /\ at(j, key).k = "unsigned" /\ at(j, key).n.hi < Half

TypeOf(j) == IF HasString(j, "type") THEN at(j, "type").s ELSE ""

NestedCandidate(c, m, i) ==
    JObject(<< <<"type", JString("IceCandidate")>>,
               <<"data", JObject(<< <<"candidate", JString(c)>>,
                                    <<"sdp_mid", JString(m)>>,
                                    <<"sdp_mline_index", JNumber(i)>> >>)>> >>)

FlatCandidate(c, m, i) ==
    JObject(<< <<"candidate", JString(c)>>,
               <<"sdpMid", JString(m)>>,
               <<"sdpMLineIndex", JNumber(i)>> >>)

FlatSdp(name, s) ==
    JObject(<< <<"type", JString(name)>>, <<"sdp", JString(s)>> >>)

\* C11: candidate field renaming.  The signal callback given a flat
\* candidate (no type field; candidate c and sdpMid m strings, sdpMLineIndex
\* i an unsigned 32-bit integer) sends the relay exactly one text, the nested
\* message of type "IceCandidate" whose data holds candidate = c,
\* sdp_mid = m and sdp_mline_index = i.
CandidateRenaming ==
    (/\ Signalled
     /\ parse(input).k = "object"
     /\ ~contains(parse(input), "type")
     /\ HasString(parse(input), "candidate")
     /\ HasString(parse(input), "sdpMid")
     /\ HasUnsigned(parse(input), "sdpMLineIndex")) =>
        /\ Len(tx) = 1
        /\ parse(tx[1]) =
              parse(NestedCandidate(at(parse(input), "candidate").s,
                                    at(parse(input), "sdpMid").s,
                                    at(parse(input), "sdpMLineIndex").n))

\* C12: inbound session descriptions.  on_message given a message whose
\* type is "Offer" or "Answer" and whose data.sdp is the string s makes
\* exactly one engine call, webrtc_session_set_remote_description, with the
\* flat payload of type "offer" resp. "answer" and sdp = s; it does not call
\* webrtc_session_add_ice_candidate.
InboundSdp ==
    (/\ Delivered
     /\ TypeOf(parse(input)) \in {"Offer", "Answer"}
     /\ contains(parse(input), "data")
     /\ HasString(at(parse(input), "data"), "sdp")) =>
        /\ Len(engine) = 1
        /\ engine[1].fn = "webrtc_session_set_remote_description"
        /\ parse(engine[1].payload) =
              parse(FlatSdp(IF TypeOf(parse(input)) = "Offer" THEN "offer" ELSE "answer",
                            at(at(parse(input), "data"), "sdp").s))

InboundSdpWitness ==
    /\ Delivered
    /\ input = NestedEncoding(Primitive("Answer", "v=0", "", "", Zero))
    /\ Len(engine) = 1
    /\ engine[1].fn = "webrtc_session_set_remote_description"
    /\ at(parse(engine[1].payload), "type") = JString("answer")
    /\ at(parse(engine[1].payload), "sdp") = JString("v=0")

\* C13: inbound candidates.  on_message given a message of type
\* "IceCandidate" whose data holds the strings candidate and sdp_mid and the
\* unsigned 32-bit integer sdp_mline_index makes exactly one engine call,
\* webrtc_session_add_ice_candidate, with the flat payload carrying the same
\* three values as candidate, sdpMid and sdpMLineIndex; it does not call
\* webrtc_session_set_remote_description.
InboundCandidate ==
    (/\ Delivered
     /\ TypeOf(parse(input)) = "IceCandidate"
     /\ contains(parse(input), "data")
     /\ HasString(at(parse(input), "data"), "candidate")
     /\ HasString(at(parse(input), "data"), "sdp_mid")
     /\ HasUnsigned(at(parse(input), "data"), "sdp_mline_index")) =>
        /\ Len(engine) = 1
        /\ engine[1].fn = "webrtc_session_add_ice_candidate"
        /\ parse(engine[1].payload) =
              parse(FlatCandidate(at(at(parse(input), "data"), "candidate").s,
                                  at(at(parse(input), "data"), "sdp_mid").s,
                                  at(at(parse(input), "data"), "sdp_mline_index").n))

InboundCandidateWitness ==
    /\ Delivered
    /\ input = NestedEncoding(Primitive("IceCandidate", "", "candidate:1 1 UDP", "0",
                                        Num(1, 32768, 0)))
    /\ Len(engine) = 1
    /\ engine[1].fn = "webrtc_session_add_ice_candidate"
    /\ at(parse(engine[1].payload), "sdpMLineIndex") = JUnsigned(Num(1, 32768, 0))
    /\ at(parse(engine[1].payload), "sdpMid") = JString("0")

\* C14: the inbound classifier recognises both encodings.  on_message given
\* the flat encoding of a primitive (type "offer" / "answer" with sdp, or no
\* type and candidate, sdpMid, sdpMLineIndex) hands it to the engine: one
\* call of set_remote_description resp. add_ice_candidate.
ClassifierRecognisesFlat ==
    (Delivered /\ input \in FlatEncodings) =>
        /\ Len(engine) = 1
        /\ engine[1].fn = IF contains(parse(input), "candidate")
                          THEN "webrtc_session_add_ice_candidate"
                          ELSE "webrtc_session_set_remote_description"

\* C15: unclassifiable-outbound fallback.  When the signal callback is
\* given a text it does not classify (not JSON, not an object, a type that is
\* not a string, or neither type "answer" / "offer" nor the three candidate
\* fields), it sends the relay exactly that text and nothing else.
Unclassified(t) ==
    \/ t.k = "garbage"
    \/ /\ t.k # "nullptr"
       /\ \/ parse(t).k # "object"
          \/ contains(parse(t), "type") /\ at(parse(t), "type").k # "string"
          \/ /\ TypeOf(parse(t)) \notin {"answer", "offer"}
             /\ ~(/\ contains(parse(t), "candidate")
                  /\ contains(parse(t), "sdpMid")
                  /\ contains(parse(t), "sdpMLineIndex"))

OutboundFallback ==
    (Signalled /\ Unclassified(input)) => tx = << input >>

OutboundFallbackWitness ==
    /\ Signalled
    /\ input = JObject(<< <<"foo", JString("bar")>> >>)
    /\ tx = << input >>
    /\ errlog # <<>>

\* C16 (as stated): every invocation of the signal callback sends exactly
\* one message to the relay.
SignalNeverDropped ==
    Signalled => Len(tx) = 1

\* C16: every invocation of the signal callback that carries a text sends
\* exactly one message to the relay, never zero and never two; an invocation
\* with a null text sends nothing.
ExactlyOneSend ==
    Signalled => Len(tx) = (IF input = NullPtr THEN 0 ELSE 1)

ExactlyOneSendWitness ==
    /\ Signalled
    /\ input = Garbage("not json")
    /\ Len(tx) = 1

\* C17: inbound decode failures never reach the engine.  on_message given
\* a text that is not a well-formed nested Offer, Answer or IceCandidate
\* (not JSON, unknown type, a required field missing or of the wrong type,
\* the line index being an unsigned integer) makes no engine call.
WellFormedNested(t) ==
    /\ parse(t).k = "object"
    /\ contains(parse(t), "data")
    /\ \/ /\ TypeOf(parse(t)) \in {"Offer", "Answer"}
          /\ HasString(at(parse(t), "data"), "sdp")
       \/ /\ TypeOf(parse(t)) = "IceCandidate"
          /\ HasString(at(parse(t), "data"), "candidate")
          /\ HasString(at(parse(t), "data"), "sdp_mid")
          /\ HasUnsigned(at(parse(t), "data"), "sdp_mline_index")

DecodeFailuresDropped ==
    (Delivered /\ ~WellFormedNested(input)) => engine = <<>>

\* C18: every inbound payload that cannot be classified (not JSON, not an
\* object, a type that is none of "offer", "answer", "Offer", "Answer",
\* "IceCandidate", or no type and not the three candidate fields) is
\* discarded with an error line on std::cerr.
RecognisedTypes == {"offer", "answer", "Offer", "Answer", "IceCandidate"}

InboundUnclassifiable(t) ==
    \/ t.k = "garbage"
    \/ parse(t).k # "object"
    \/ contains(parse(t), "type") /\ TypeOf(parse(t)) \notin RecognisedTypes
    \/ /\ ~contains(parse(t), "type")
       /\ ~(/\ contains(parse(t), "candidate")
            /\ contains(parse(t), "sdpMid") \/ contains(parse(t), "sdp_mid")
            /\ contains(parse(t), "sdpMLineIndex") \/ contains(parse(t), "sdp_mline_index"))

UnclassifiableLogged ==
    (Delivered /\ InboundUnclassifiable(input)) =>
        /\ engine = <<>>
        /\ errlog # <<>>

\* C19: a payload of a recognised variant that lacks a required field or
\* carries it with the wrong type is a schema error and no translated
\* message is produced: the signal callback given such a flat payload logs
\* an error and sends no nested message, on_message given such a nested
\* payload logs an error and makes no engine call.
FlatBadField(t) ==
    /\ parse(t).k = "object"
    /\ \/ /\ TypeOf(parse(t)) \in {"answer", "offer"}
          /\ ~HasString(parse(t), "sdp")
       \/ /\ ~contains(parse(t), "type")
          /\ contains(parse(t), "candidate")
          /\ contains(parse(t), "sdpMid")
          /\ contains(parse(t), "sdpMLineIndex")
          /\ ~(/\ HasString(parse(t), "candidate")
               /\ HasString(parse(t), "sdpMid")
               /\ HasUnsigned(parse(t), "sdpMLineIndex"))

NestedBadField(t) ==
    /\ parse(t).k = "object"
    /\ TypeOf(parse(t)) \in {"Offer", "Answer", "IceCandidate"}
    /\ ~WellFormedNested(t)

SchemaErrorOnBadField ==
    /\ (Signalled /\ FlatBadField(input)) =>
          /\ tx \in { <<>>, << input >> }
          /\ errlog # <<>>
    /\ (Delivered /\ NestedBadField(input)) =>
          /\ engine = <<>>
          /\ errlog # <<>>

\* C20: translation preserves only the fields of the primitive.  Every
\* payload handed to the engine has exactly the members type and sdp, or
\* candidate, sdpMid and sdpMLineIndex; every nested message the signal
\* callback builds has exactly the members type and data, and data exactly
\* sdp, or candidate, sdp_mid and sdp_mline_index.
OnlyPrimitiveFields ==
    /\ \A i \in 1..Len(engine) :
          Keys(parse(engine[i].payload)) \in
             { {"type", "sdp"}, {"candidate", "sdpMid", "sdpMLineIndex"} }
    /\ (Signalled /\ errlog = <<>>) =>
          \A i \in 1..Len(tx) :
             /\ Keys(parse(tx[i])) = {"type", "data"}
             /\ Keys(at(parse(tx[i]), "data")) \in
                   { {"sdp"}, {"candidate", "sdp_mid", "sdp_mline_index"} }

OnlyPrimitiveFieldsWitness ==
    /\ Signalled
    /\ contains(parse(input), "usernameFragment")
    /\ errlog = <<>>
    /\ Len(tx) = 1
    /\ Keys(at(parse(tx[1]), "data")) = {"candidate", "sdp_mid", "sdp_mline_index"}

(***************************************************************************)
(* Further properties of the relay.                                        *)
(***************************************************************************)
Valid(msg) == ~empty(msg) /\ ~oversized(msg)

\* C22: no per-message error escalates.  A message handler that drops an
\* empty or oversized payload, or in which a send throws, leaves every
\* connection open and the registry as it was and lets no exception escape;
\* and when the next event is a valid payload from the same sender, it is
\* sent to every other registered connection.
NoEscalation ==
    [][ /\ (event'.kind = "message"
             /\ (calls' = <<>> \/ \E i \in 1..Len(sends') : ~sends'[i].ok)) =>
              /\ conn' = conn
              /\ clients_' = clients_
              /\ ~raised'
              /\ conn'[event'.ws] = "open"
              /\ event'.ws \in Range(clients_')
        /\ (/\ event.kind = "message"
            /\ (calls = <<>> \/ Failed # {})
            /\ event'.kind = "message"
            /\ event'.ws = event.ws
            /\ Valid(event'.msg)) =>
              /\ calls' = << Call("broadcastMessage", event'.ws) >>
              /\ { sends'[i].to : i \in 1..Len(sends') } = Others(clients_, event'.ws)
              /\ \A i \in 1..Len(sends') : sends'[i].msg = event'.msg ]_vars

NoEscalationWitness ==
    /\ event.kind = "message"
    /\ empty(event.msg)
    /\ calls = <<>>
    /\ conn[event.ws] = "open"
    /\ event.ws \in Range(clients_)
    /\ Len(clients_) >= 2

\* C23: the relay originates no messages.  Every send of a handler is made
\* by a message handler, carries the payload that handler received and goes
\* to a connection other than the one it came from; a handler that drops
\* its payload, and the open and close handlers, send nothing to anybody.
OriginatesNothing ==
    /\ \A i \in 1..Len(sends) :
          /\ event.kind = "message"
          /\ sends[i].msg = event.msg
          /\ sends[i].to # event.ws
    /\ (event.kind = "message" /\ ~Valid(event.msg)) => sends = <<>>
    /\ event.kind \in {"open", "close"} => sends = <<>>

OriginatesNothingWitness ==
    /\ event.kind = "message"
    /\ oversized(event.msg)
    /\ sends = <<>>
    /\ inbox(event.ws) = <<>>
    /\ Len(clients_) >= 2

\* C24: nothing is stored, queued or replayed.  The sends of a step carry
\* the payload of that step's message event and go to connections that were
\* registered before the step; the open handler delivers nothing to the
\* connection it registers, and a payload broadcast while no other
\* connection is registered is sent to nobody.
NothingReplayed ==
    [][ /\ event'.kind # "message" => sends' = <<>>
        /\ \A i \in 1..Len(sends') :
              /\ sends'[i].to \in Range(clients_)
              /\ sends'[i].msg = event'.msg
        /\ (event'.kind = "message" /\ Others(clients_, event'.ws) = {}) =>
              sends' = <<>> ]_vars

NothingReplayedWitness ==
    /\ Relayed
    /\ Valid(event.msg)
    /\ clients_ = << event.ws >>
    /\ sends = <<>>

(***************************************************************************)
(* Further properties of the signalling client.                            *)
(***************************************************************************)
\* C30: no buffering of out-of-order signalling.  on_message given a
\* well-formed IceCandidate calls webrtc_session_add_ice_candidate for it in
\* the same step, whether or not a remote description has been set before,
\* and leaves that fact as it was; and every add_ice_candidate call of a
\* step is for the candidate of the message of that step, so no candidate
\* is held back and handed over later or in another order.
NoBuffering ==
    [][ (path' # <<>> /\ path'[Len(path')] = "on_message") =>
          /\ (TypeOf(parse(input')) = "IceCandidate" /\ WellFormedNested(input')) =>
                /\ Len(engine') = 1
                /\ engine'[1].fn = "webrtc_session_add_ice_candidate"
                /\ described' = described
          /\ \A i \in 1..Len(engine') :
                engine'[i].fn = "webrtc_session_add_ice_candidate" =>
                   /\ TypeOf(parse(input')) = "IceCandidate"
                   /\ at(parse(engine'[i].payload), "candidate") =
                         at(at(parse(input'), "data"), "candidate")
                   /\ at(parse(engine'[i].payload), "sdpMid") =
                         at(at(parse(input'), "data"), "sdp_mid") ]_vars

NoBufferingWitness ==
    /\ Delivered
    /\ ~described
    /\ TypeOf(parse(input)) = "IceCandidate"
    /\ Len(engine) = 1
    /\ engine[1].fn = "webrtc_session_add_ice_candidate"

(***************************************************************************)
(* Properties of the relay process.                                        *)
(***************************************************************************)
BindFailed == event.kind = "listen" /\ ~listening

\* C21: fail-fast startup.  When the listen socket cannot be bound, main
\* logs the failure as an error and returns 1 in that same step, without
\* setting serverStarted; from then on the process takes no step at all (no
\* second listen, no app.run()), and while nothing is bound no connection is
\* ever opened or registered.
FailFast ==
    [][ /\ (event'.kind = "listen" /\ ~listening') =>
              /\ pc' = "exited"
              /\ exit_code' = 1
              /\ ~serverStarted'
              /\ log' # <<>>
              /\ \A i \in 1..Len(log') : log'[i].level = "ERROR" /\ log'[i].n = port
        /\ pc # "exited"
        /\ ~listening' => (clients_' = <<>> /\ \A h \in Handles : conn'[h] = "closed") ]_vars

FailFastWitness ==
    /\ BindFailed
    /\ pc = "exited"
    /\ exit_code = 1
    /\ port = SmokeTestPort

\* C27: on a process-level interrupt the relay closes every open connection
\* and releases the listen socket before the process ends: once the process
\* has been interrupted no connection is open, no handle is registered and
\* the listen socket is not held.
InterruptClosesAll ==
    pc = "killed" =>
        /\ \A h \in Handles : conn[h] = "closed"
        /\ clients_ = <<>>
        /\ ~listening

\* C28: with the relay started without --port and vtk_cube started without
\* --signalling, the signalling client of vtk_cube connects to
\* ws://localhost:8080, the address the relay announced.
DefaultsMeet ==
    ( /\ pc = "run"
      /\ "--port" \notin Range(argv)
      /\ "--signalling" \notin Range(cube_argv)
      /\ CubeArgs(cube_argv).webrtc_output ) =>
        /\ CubeArgs(cube_argv).signalling_url = "ws://localhost:8080"
        /\ CubeArgs(cube_argv).signalling_url = announced

\* C29: started with the command line of the run script, the relay
\* announces ws://localhost:9080, the line the smoke test looks for; and
\* whenever the relay has started, the announced address is that of the
\* port it was configured with and has bound.
AnnouncesSmokePort ==
    /\ (pc = "run" /\ argv = RunScript.relay) => announced = SmokeTestAddress
    /\ serverStarted => (listening /\ announced = Address(port))

(***************************************************************************)
(* Properties of ClientManager under concurrent callers.                   *)
(***************************************************************************)
Inside(t) ==
    \/ th[t].pc \in { "in", "send", "ret" }
    \/ th[t].pc \in { "log", "logging" } /\ th[t].next \in { "in", "tail", "ret" }

Broadcasting(t) == Inside(t) /\ th[t].op = "broadcastMessage"

Recipients(cl, sender) ==
    LET NotSender(c) == c # sender IN SelectSeq(cl, NotSender)

\* C25: the registry operations are mutually exclusive.  A thread inside
\* addClient, removeClient, getClientCount or broadcastMessage holds mutex_,
\* so at most one thread is inside at a time; during the whole iteration of
\* a broadcast clients_ is what it was when the lock was taken, and the
\* recipients sent to so far are the members before the iterator, minus the
\* sender, in order: at the end of the loop, exactly the members of that
\* one instant minus the sender (a send that threw counts as made: sent and
\* failed together are those members, each in order).
MutualExclusion ==
    \A t \in Threads :
       Inside(t) =>
          /\ mutex_ = t
          /\ \A u \in Threads \ {t} : ~Inside(u)
          /\ Broadcasting(t) =>
                LET reached == Recipients(SubSeq(th[t].seen, 1, th[t].i - 1), th[t].ws)
                    Threw(c) == c \in Range(th[t].failed)
                    Returned(c) == c \notin Range(th[t].failed)
                IN  /\ clients_ = th[t].seen
                    /\ th[t].i \in 1..(Len(th[t].seen) + 1)
                    /\ th[t].sent = SelectSeq(reached, Returned)
                    /\ th[t].failed = SelectSeq(reached, Threw)

MutualExclusionWitness ==
    \E t \in Threads, u \in Threads :
       /\ Broadcasting(t)
       /\ th[t].i = Len(clients_) + 1
       /\ Len(th[t].sent) = 2
       /\ th[u].pc = "wait"
       /\ th[u].op \in { "addClient", "removeClient" }

InSend(t) == th[t].pc = "send"

(***************************************************************************)
IsText(t) == t.k \notin { "garbage", "nullptr" }

\* C31: classification by sibling fields only without a type field.  When
\* the signal callback is given an object whose type field is present and
\* is none of "offer", "answer", "Offer", "Answer", "IceCandidate", it does
\* not classify it, whatever other fields it carries: it sends the relay
\* exactly the text it was given.
TypedNotByFields ==
    (/\ Signalled
     /\ IsText(input)
     /\ parse(input).k = "object"
     /\ contains(parse(input), "type")
     /\ TypeOf(parse(input)) \notin RecognisedTypes) =>
        tx = << input >>

\* C32: the line index of every emitted IceCandidate.  Each payload handed
\* to webrtc_session_add_ice_candidate by on_message, and each nested
\* IceCandidate sent to the relay by the signal callback, carries a line
\* index that is a non-negative 32-bit integer and is the index of the input
\* message; so an input with a negative index produces neither.
LineIndexKept ==
    /\ Delivered =>
          \A i \in 1..Len(engine) :
             engine[i].fn = "webrtc_session_add_ice_candidate" =>
                /\ HasUnsigned(parse(engine[i].payload), "sdpMLineIndex")
                /\ at(parse(engine[i].payload), "sdpMLineIndex") =
                      at(at(parse(input), "data"), "sdp_mline_index")
    /\ (/\ Signalled
        /\ Len(tx) = 1
        /\ tx # << input >>
        /\ TypeOf(parse(tx[1])) = "IceCandidate") =>
          /\ HasUnsigned(at(parse(tx[1]), "data"), "sdp_mline_index")
          /\ at(at(parse(tx[1]), "data"), "sdp_mline_index") =
                at(parse(input), "sdpMLineIndex")

(***************************************************************************)
(* Further properties of the registry inside the relay.                    *)
(***************************************************************************)
\* C33: the registry never holds the same connection twice.  After any
\* sequence of open, message and close events each handle occurs at most
\* once in clients_, so no recipient is sent one broadcast twice, and after
\* the close handler of a connection its handle is in clients_ no more.
NoDuplicateMembers ==
    /\ \A i \in 1..Len(clients_), j \in 1..Len(clients_) :
          i # j => clients_[i] # clients_[j]
    /\ \A i \in 1..Len(sends), j \in 1..Len(sends) :
          i # j => sends[i].to # sends[j].to
    /\ event.kind = "close" => event.ws \notin Range(clients_)

NoDuplicateMembersWitness ==
    /\ Relayed
    /\ Len(clients_) = 3
    /\ Len(sends) = 2
    /\ \E h \in Handles : clients_[1] = h /\ h # 1

\* C34: per-sender order.  Of the payloads p1 then p2 that one connection
\* sends, every other handle is handed p1 before p2 and each at most once,
\* whatever other connections broadcast in between; and a handle that was
\* handed p1 and is still a member when p2 is broadcast, with a send that
\* does not fail, is handed p2 in that step.
OrderedHearings ==
    { <<>>, << FirstPayload >>, << SecondPayload >>, << FirstPayload, SecondPayload >> }

PerSenderOrder ==
    [][ /\ \A h \in Handles : heard'[h] \in OrderedHearings
        /\ (event'.kind = "message" /\ event'.ws = watched /\ said = << FirstPayload >>) =>
              /\ event'.msg = SecondPayload
              /\ \A h \in Range(clients_) \ {watched} :
                    (heard[h] = << FirstPayload >> /\ Handed(h) # {}) =>
                       heard'[h] = << FirstPayload, SecondPayload >> ]_vars

PerSenderOrderWitness ==
    /\ said = << FirstPayload, SecondPayload >>
    /\ event.kind = "message"
    /\ event.ws # watched
    /\ \E h \in Handles : heard[h] = << FirstPayload, SecondPayload >>
    /\ \E h \in Handles : heard[h] = << SecondPayload >>

\* C35: no send to a connection that is closed.  While a handle is closed
\* (its close handler has run and it has not been opened again) no handler
\* calls send on it and it is handed nothing; the close handler itself sends
\* nothing and leaves the handle out of clients_.
NoSendAfterClose ==
    [][ /\ \A c \in Handles :
              (conn[c] = "closed" /\ conn'[c] = "closed") =>
                 /\ \A i \in 1..Len(sends') : sends'[i].to # c
                 /\ heard'[c] \in { heard[c], <<>> }
                 /\ c \notin Range(clients_')
        /\ event'.kind = "close" =>
              /\ sends' = <<>>
              /\ event'.ws \notin Range(clients_') ]_vars

NoSendAfterCloseWitness ==
    /\ said = << FirstPayload, SecondPayload >>
    /\ event.kind = "message"
    /\ event.ws = watched
    /\ sends # <<>>
    /\ \E c \in Handles : heard[c] = << FirstPayload >> /\ conn[c] = "closed"

\* C36 as stated: concurrent registry calls never deadlock.  A thread
\* takes ClientManager::mutex_ only while it does not hold Logger::mutex_,
\* the logger mutex is held only inside a Logger call, which calls nothing,
\* and every handler that a thread has entered (addClient, removeClient,
\* broadcastMessage, getClientCount, or the warning of a dropped payload)
\* returns in the end.
CallsReturn ==
    /\ [][ \A t \in Threads : (mutex_' = t /\ mutex_ # t) => log_mutex_ # t ]_vars
    /\ [](\A t \in Threads : log_mutex_ = t => th[t].pc = "logging")
    /\ \A t \in Threads : (th[t].pc # "idle") ~> (th[t].pc = "idle")

\* A thread that can take its next step: it is past its mutexes, or the
\* mutex it is waiting for is free.
CanStep(t) ==
    \/ th[t].pc \in { "in", "send", "logging", "ret" }
    \/ th[t].pc = "wait" /\ mutex_ = ""
    \/ th[t].pc = "log" /\ log_mutex_ = ""

AllIdle == \A t \in Threads : th[t].pc = "idle"

CallEnds == \E t \in Threads : th[t].pc # "idle" /\ th'[t].pc = "idle"

\* C36, amended: concurrent registry calls never deadlock.  A thread takes
\* ClientManager::mutex_ only while it does not hold Logger::mutex_, the
\* logger mutex is held only inside a Logger call, which calls nothing; so
\* whenever some thread is inside a handler some thread inside a handler
\* can take its next step, and as long as handlers are in progress one of
\* them returns again and again.  (Which one is not promised: a thread
\* waiting for a mutex can be overtaken every time the mutex is released.)
NoDeadlock ==
    /\ [][ \A t \in Threads : (mutex_' = t /\ mutex_ # t) => log_mutex_ # t ]_vars
    /\ [](\A t \in Threads : log_mutex_ = t => th[t].pc = "logging")
    /\ [](AllIdle \/ \E t \in Threads : CanStep(t))
    /\ ([]<>AllIdle \/ []<><<CallEnds>>_vars)

NoDeadlockWitness ==
    \E t \in Threads, u \in Threads :
       /\ th[t].pc = "log"
       /\ th[t].op = "broadcastMessage"
       /\ th[t].sent # <<>>
       /\ th[t].i <= Len(clients_)
       /\ verbose
       /\ mutex_ = t
       /\ log_mutex_ = u
       /\ th[u].op = "drop"

(***************************************************************************)
(* vtk_cube: the main thread and the streaming thread (webrtc_thread).     *)
(*                                                                         *)
(* Three of the mains in the repository are followed: the one of           *)
(* examples/vtk-cube/main.cpp, the first one of part_002 (line 93) and the *)
(* last one of part_002 (line 589).  In the first two the thread waits on  *)
(* dirty_cv before every frame and the window branch is taken whenever     *)
(* --native is given; in the last one the thread waits only if --native is *)
(* given and the window branch is taken only without --webrtc.             *)
(***************************************************************************)
MaxFrames == 3

Builds == { "main.cpp", "part_002:93", "part_002:589" }

CubeCommandLines ==
    { << >>, << "--native" >>, << "--webrtc" >>, << "--native", "--webrtc" >>,
      << "--webrtc", "--size", "640", "480" >>, << "--size", "640", "--webrtc" >> }

native_output == CubeArgs(cube_argv).native_output

webrtc_output == CubeArgs(cube_argv).webrtc_output

\* if (native_output) { dirty_cv.wait ... }: line 811 of the last main; the
\* other mains wait unconditionally.
WaitsForDirty == build # "part_002:589" \/ native_output

\* if (native_output) / if (native_output && !webrtc_output)
WindowBranch ==
    IF build = "part_002:589" THEN native_output /\ ~webrtc_output ELSE native_output

\* dirty_cv.notify_one(): a thread blocked in the wait is made runnable; with
\* no thread blocked the notification is lost.
notify_one ==
    /\ waiter' = FALSE
    /\ wpc' = IF waiter THEN "woken" ELSE wpc

StreamFrame == UNCHANGED <<relayVars, clientVars, procVars, lockVars, orderVars>>

StreamInit ==
    /\ RelayInit /\ verbose = FALSE
    /\ ClientInit
    /\ pc = "run" /\ argv = << >> /\ port = DefaultPort
    /\ serverStarted = TRUE /\ listening = TRUE /\ exit_code = -1
    /\ announced = Address(DefaultPort)
    /\ cube_argv \in CubeCommandLines
    /\ LockFree
    /\ Unwatched
    /\ build \in Builds
    /\ running = TRUE
    /\ scene_dirty = TRUE
    /\ dirty_mutex = FALSE
    /\ waiter = FALSE
    /\ wpc = "none"
    /\ mpc = IF CubeArgs(cube_argv).aborted THEN "aborted" ELSE "start"
    /\ frame_idx = 0
    /\ teardown = <<>>
    /\ session \in (IF webrtc_output /\ ~CubeArgs(cube_argv).aborted
                     THEN BOOLEAN ELSE { FALSE })

(***************************************************************************)
(* main: webrtc_thread = std::thread(...) if webrtc_output, then the       *)
(* branch on the mode.  The window branch attaches the observers and       *)
(* enters renderWindowInteractor->Start().                                 *)
(***************************************************************************)
Spawn ==
    /\ mpc = "start"
    /\ wpc' = IF webrtc_output THEN "test" ELSE "none"
    /\ mpc' = IF WindowBranch THEN "interact"
              ELSE IF webrtc_output THEN "loop" ELSE "join"
    /\ UNCHANGED <<build, running, scene_dirty, dirty_mutex, waiter, frame_idx,
                   teardown, session>>
    /\ StreamFrame

\* mark_dirty_cb, run by the interactor on a window event.
MarkDirty ==
    /\ mpc = "interact"
    /\ scene_dirty' = TRUE
    /\ notify_one
    /\ UNCHANGED <<build, running, dirty_mutex, mpc, frame_idx, teardown, session>>
    /\ StreamFrame

\* The window is closed: Start() returns and main stores running = false,
\* without taking dirty_mutex.
CloseWindow ==
    /\ mpc = "interact"
    /\ running' = FALSE
    /\ mpc' = "notify:window"
    /\ UNCHANGED <<build, scene_dirty, dirty_mutex, waiter, wpc, frame_idx,
                   teardown, session>>
    /\ StreamFrame

\* The three dirty_cv.notify_one() calls of main: after the window branch,
\* after the wait loop, and before join().
Notify ==
    /\ mpc \in { "notify:window", "notify:loop", "notify:join" }
    /\ notify_one
    /\ mpc' = IF mpc = "notify:join" THEN "joining" ELSE "join"
    /\ UNCHANGED <<build, running, scene_dirty, dirty_mutex, frame_idx,
                   teardown, session>>
    /\ StreamFrame

\* while (running) { sleep_for(1s); }
LoopTest ==
    /\ mpc = "loop"
    /\ mpc' = IF running THEN "sleep" ELSE "notify:loop"
    /\ UNCHANGED <<build, running, scene_dirty, dirty_mutex, waiter, wpc,
                   frame_idx, teardown, session>>
    /\ StreamFrame

Sleep ==
    /\ mpc = "sleep"
    /\ mpc' = "loop"
    /\ UNCHANGED <<build, running, scene_dirty, dirty_mutex, waiter, wpc,
                   frame_idx, teardown, session>>
    /\ StreamFrame

\* if (webrtc_thread.joinable()) { running = false; ...
Joinable ==
    /\ mpc = "join"
    /\ running' = IF wpc # "none" THEN FALSE ELSE running
    /\ mpc' = IF wpc # "none" THEN "notify:join" ELSE "stop"
    /\ UNCHANGED <<build, scene_dirty, dirty_mutex, waiter, wpc, frame_idx,
                   teardown, session>>
    /\ StreamFrame

\* webrtc_thread.join() returns once the thread function has returned.
Join ==
    /\ mpc = "joining"
    /\ wpc = "done"
    /\ mpc' = "stop"
    /\ UNCHANGED <<build, running, scene_dirty, dirty_mutex, waiter, wpc,
                   frame_idx, teardown, session>>
    /\ StreamFrame

\* if (webrtc_output && signalling_client) signalling_client->stop();
\* main.cpp has no signalling client.
SignallingStop ==
    /\ mpc = "stop"
    /\ teardown' = IF webrtc_output /\ build # "main.cpp"
                   THEN Append(teardown, "stop") ELSE teardown
    /\ mpc' = "destroy"
    /\ UNCHANGED <<build, running, scene_dirty, dirty_mutex, waiter, wpc,
                   frame_idx, session>>
    /\ StreamFrame

\* if (webrtc_output && webrtc_ctx.session) webrtc_session_destroy(...);
\* return 0;
SessionDestroy ==
    /\ mpc = "destroy"
    /\ teardown' = IF webrtc_output /\ session /\ build # "main.cpp"
                   THEN Append(teardown, "destroy") ELSE teardown
    /\ mpc' = "returned"
    /\ UNCHANGED <<build, running, scene_dirty, dirty_mutex, waiter, wpc,
                   frame_idx, session>>
    /\ StreamFrame

(***************************************************************************)
(* webrtc_thread.                                                          *)
(***************************************************************************)
\* while (running)
Test ==
    /\ wpc = "test"
    /\ wpc' = IF ~running THEN "done"
              ELSE IF WaitsForDirty THEN "lock" ELSE "render"
    /\ UNCHANGED <<build, running, scene_dirty, dirty_mutex, waiter, mpc,
                   frame_idx, teardown, session>>
    /\ StreamFrame

\* std::unique_lock<std::mutex> lock(dirty_mutex), and the re-acquisition
\* inside wait() after a wake-up.
Lock ==
    /\ wpc \in { "lock", "woken" }
    /\ ~dirty_mutex
    /\ dirty_mutex' = TRUE
    /\ wpc' = "pred"
    /\ UNCHANGED <<build, running, scene_dirty, waiter, mpc, frame_idx,
                   teardown, session>>
    /\ StreamFrame

\* wait(lock, pred) evaluates scene_dirty || !running holding the mutex.
Pred ==
    /\ wpc = "pred"
    /\ wpc' = IF scene_dirty \/ ~running THEN "check" ELSE "wait"
    /\ UNCHANGED <<build, running, scene_dirty, dirty_mutex, waiter, mpc,
                   frame_idx, teardown, session>>
    /\ StreamFrame

\* The predicate was false: wait(lock) releases the mutex and blocks.
Wait ==
    /\ wpc = "wait"
    /\ dirty_mutex' = FALSE
    /\ waiter' = TRUE
    /\ wpc' = "blocked"
    /\ UNCHANGED <<build, running, scene_dirty, mpc, frame_idx, teardown, session>>
    /\ StreamFrame

\* A wake-up without a notification, which wait() is allowed to make.
Spurious ==
    /\ wpc = "blocked"
    /\ waiter
    /\ notify_one
    /\ UNCHANGED <<build, running, scene_dirty, dirty_mutex, mpc, frame_idx,
                   teardown, session>>
    /\ StreamFrame

\* if (!running) break; scene_dirty = false; lock.unlock();
Check ==
    /\ wpc = "check"
    /\ dirty_mutex' = FALSE
    /\ scene_dirty' = IF running THEN FALSE ELSE scene_dirty
    /\ wpc' = IF running THEN "render" ELSE "done"
    /\ UNCHANGED <<build, running, waiter, mpc, frame_idx, teardown, session>>
    /\ StreamFrame

\* Render ... render_webrtc(..., frame_idx++); sleep_for(33ms)
Render ==
    /\ wpc = "render"
    /\ frame_idx' = IF frame_idx < MaxFrames THEN frame_idx + 1 ELSE frame_idx
    /\ wpc' = "test"
    /\ UNCHANGED <<build, running, scene_dirty, dirty_mutex, waiter, mpc,
                   teardown, session>>
    /\ StreamFrame

MainStep ==
    Spawn \/ Notify \/ LoopTest \/ Sleep \/ Joinable \/ Join \/ SignallingStop
      \/ SessionDestroy

ThreadStep == Test \/ Lock \/ Pred \/ Wait \/ Check \/ Render

WindowEvent == MarkDirty \/ CloseWindow

StreamNext == MainStep \/ ThreadStep \/ WindowEvent \/ Spurious

StreamSpec == StreamInit /\ [][StreamNext]_vars

(***************************************************************************)
(* Both threads keep being scheduled.  Nothing is assumed of the user      *)
(* (window events, closing the window) or of spurious wake-ups.            *)
(***************************************************************************)
StreamFair == WF_vars(MainStep) /\ WF_vars(ThreadStep)

StreamLive == StreamSpec /\ StreamFair

\* C37: in --native --webrtc mode of the last main the streaming thread
\* keeps producing frames: while running is true, after each frame handed
\* to the engine another one is handed to it in the end.
FramesKeepComing ==
    \A k \in 1..(MaxFrames - 1) :
       ( /\ build = "part_002:589"
         /\ native_output /\ webrtc_output
         /\ frame_idx = k
         /\ running )
         ~> (frame_idx > k \/ ~running)

\* C38: once main has stored running = false and made its notifications
\* (it is in webrtc_thread.join()), the streaming thread leaves its wait and
\* its loop and join() returns.
HandshakeCompletes ==
    (mpc = "joining") ~> (wpc = "done" /\ mpc \in { "stop", "destroy", "returned" })

\* C39: in WebRTC mode main leaves its wait loop in the end, and then joins
\* the streaming thread, stops the signalling client and destroys the
\* session, in this order, and returns.
LeavesWaitLoop ==
    (mpc \in { "loop", "sleep" })
      ~> ( /\ mpc = "returned"
           /\ wpc = "done"
           /\ teardown \in { << "stop", "destroy" >>, << "stop" >>, << >> } )

====
